---- MODULE Spec2Model ----
(***************************************************************************)
(* A model of the PatternLang compiler: semantic analyzer, TAC generator,   *)
(* optimizer, code generator and tree-walking interpreter.                  *)
(*                                                                          *)
(* std::string values (TAC operands, identifiers, labels) are sequences of  *)
(* one-character strings, so that the lexical tests the code makes on them  *)
(* (isTemp, isIntLiteral, the "func_" prefix, the ", " separator of a       *)
(* call's argument string) are computed and not assumed.  Operators (op)    *)
(* are only ever compared for equality and are kept as TLA+ strings.        *)
(***************************************************************************)
EXTENDS Integers, Sequences, FiniteSets, TLC

VARIABLES
    program,     \* the AST handed to the stages (Program*)
    stage,       \* position of main() / of the optimizer driver
    sa,          \* SemanticAnalyzer: symtab scopes, inFunction, currentFunctionReturnType, exit flag
    tac,         \* IRGenerator::code, the raw TAC
    out,         \* Optimizer::optimize local `out`
    changed,     \* Optimizer::optimize local `changed`
    iterations,  \* Optimizer::optimize local `iterations`
    first,       \* result of the first optimize (<<>> until a second one starts)
    round,       \* 1: first call of optimize, 2: optimize of its own result
    emitted,     \* CodeGenerator::generate output, as a list of target statements
    runs,        \* outputs written by the executions (raw TAC, optimized TAC, interpreter)
    garbage,     \* the value an uninitialised target variable happens to hold
    lexer,       \* Lexer: source, pos, line and the tokens pushed so far
    parser,      \* Parser: tokens, current, and the expression it built
    interp,      \* Interpreter: env, funcs, what it wrote, a ReturnException on its way up
    node,        \* Interpreter::run: index of the next node of p->decls
    lastCall     \* the call expression evalExpr was handed last, and the Value it returned

vars == <<program, stage, sa, tac, out, changed, iterations,
          first, round, emitted, runs, garbage, lexer, parser, interp, node, lastCall>>

-----------------------------------------------------------------------------
(* std::string helpers *)

Digits == {"0", "1", "2", "3", "4", "5", "6", "7", "8", "9"}

isdigit(c) == c \in Digits

DigitVal(c) ==
    CASE c = "0" -> 0 [] c = "1" -> 1 [] c = "2" -> 2 [] c = "3" -> 3
      [] c = "4" -> 4 [] c = "5" -> 5 [] c = "6" -> 6 [] c = "7" -> 7
      [] c = "8" -> 8 [] c = "9" -> 9

DigitChar(d) ==
    CASE d = 0 -> "0" [] d = 1 -> "1" [] d = 2 -> "2" [] d = 3 -> "3"
      [] d = 4 -> "4" [] d = 5 -> "5" [] d = 6 -> "6" [] d = 7 -> "7"
      [] d = 8 -> "8" [] d = 9 -> "9"

RECURSIVE NatToStr(_)
NatToStr(n) == IF n < 10 THEN <<DigitChar(n)>>
               ELSE NatToStr(n \div 10) \o <<DigitChar(n % 10)>>

\* std::to_string on an integer
to_string(n) == IF n < 0 THEN <<"-">> \o NatToStr(-n) ELSE NatToStr(n)

RECURSIVE DigitsToNat(_, _)
DigitsToNat(s, acc) ==
    IF s = <<>> \/ ~isdigit(Head(s)) THEN acc
    ELSE DigitsToNat(Tail(s), acc * 10 + DigitVal(Head(s)))

\* std::stoll / std::stoi: optional sign, then the leading digits
stoll(s) == IF s # <<>> /\ Head(s) = "-" THEN -DigitsToNat(Tail(s), 0)
            ELSE DigitsToNat(s, 0)

StartsWith(s, p) == Len(s) >= Len(p) /\ SubSeq(s, 1, Len(p)) = p

\* C++ integer division and remainder truncate toward zero
Abs(n) == IF n < 0 THEN -n ELSE n
CDiv(a, b) == IF (a < 0) = (b < 0) THEN Abs(a) \div Abs(b) ELSE -(Abs(a) \div Abs(b))
CMod(a, b) == a - b * CDiv(a, b)

-----------------------------------------------------------------------------
(* ir.h: struct TAC *)

Instr(o, a1, a2, r) == [op |-> o, arg1 |-> a1, arg2 |-> a2, res |-> r, isLabel |-> FALSE]
Label(r) == [op |-> "", arg1 |-> <<>>, arg2 |-> <<>>, res |-> r, isLabel |-> TRUE]

-----------------------------------------------------------------------------
(* optimizer.cpp: helpers *)

isTemp(s) == s # <<>> /\ s[1] = "t" /\ Len(s) > 1 /\ isdigit(s[2])

isIntLiteral(s) ==
    /\ s # <<>>
    /\ (s[1] = "-" => Len(s) # 1)
    /\ \A i \in (IF s[1] = "-" THEN 2 ELSE 1) .. Len(s) : isdigit(s[i])

STrue == <<"t", "r", "u", "e">>
SFalse == <<"f", "a", "l", "s", "e">>

isBoolLiteral(s) == s = STrue \/ s = SFalse

isQuotedString(s) == Len(s) >= 2 /\ s[1] = "\"" /\ s[Len(s)] = "\""

toInt(s) == stoll(s)

-----------------------------------------------------------------------------
(* optimizer.cpp: the four passes.  Each returns the rewritten list and the  *)
(* bool the pass returns.                                                    *)

IntFoldOps == {"+", "-", "*", "/", "%", "<", ">", "<=", ">=", "==", "!="}
BoolFoldOps == {"&&", "||", "==", "!="}

B2I(b) == IF b THEN 1 ELSE 0

\* lines 62-78: `fold` for two integer literals
IntFolds(t) ==
    /\ t.op \in IntFoldOps
    /\ (t.op \in {"/", "%"} => toInt(t.arg2) # 0)

\* lines 67-77: `res`
IntFoldValue(o, a, b) ==
    CASE o = "+" -> a + b
      [] o = "-" -> a - b
      [] o = "*" -> a * b
      [] o = "/" -> CDiv(a, b)
      [] o = "%" -> CMod(a, b)
      [] o = "<" -> B2I(a < b)
      [] o = ">" -> B2I(a > b)
      [] o = "<=" -> B2I(a <= b)
      [] o = ">=" -> B2I(a >= b)
      [] o = "==" -> B2I(a = b)
      [] o = "!=" -> B2I(a # b)

\* lines 92-96: `outv`
BoolFoldValue(o, a, b) ==
    CASE o = "&&" -> a /\ b
      [] o = "||" -> a \/ b
      [] o = "==" -> a = b
      [] o = "!=" -> a # b

\* whether constantFold rewrites instruction t
Folds(t) ==
    /\ ~t.isLabel
    /\ t.op # ""
    /\ t.arg2 # <<>>
    /\ \/ isIntLiteral(t.arg1) /\ isIntLiteral(t.arg2) /\ IntFolds(t)
       \/ /\ ~(isIntLiteral(t.arg1) /\ isIntLiteral(t.arg2))
          /\ isBoolLiteral(t.arg1) /\ isBoolLiteral(t.arg2)
          /\ t.op \in BoolFoldOps

FoldInstr(t) ==
    IF ~Folds(t) THEN t
    ELSE IF isIntLiteral(t.arg1)
         THEN [t EXCEPT !.op = "assign",
                        !.arg1 = to_string(IntFoldValue(t.op, toInt(t.arg1), toInt(t.arg2))),
                        !.arg2 = <<>>]
         ELSE [t EXCEPT !.op = "assign",
                        !.arg1 = IF BoolFoldValue(t.op, t.arg1 = STrue, t.arg2 = STrue)
                                 THEN STrue ELSE SFalse,
                        !.arg2 = <<>>]

\* `r = a / 0` and `r = a % 0` with integer literals: lines 70-71, b == 0
DivByZero(t) ==
    /\ ~t.isLabel
    /\ t.op \in {"/", "%"}
    /\ isIntLiteral(t.arg1) /\ isIntLiteral(t.arg2)
    /\ toInt(t.arg2) = 0

\* a constantFold that folds a division by zero to 0
constantFoldZero(code) ==
    [code |-> [i \in 1 .. Len(code) |->
                  IF DivByZero(code[i])
                  THEN [code[i] EXCEPT !.op = "assign", !.arg1 = <<"0">>, !.arg2 = <<>>]
                  ELSE FoldInstr(code[i])],
     changed |-> \E i \in 1 .. Len(code) : Folds(code[i]) \/ DivByZero(code[i])]

constantFold(code) ==
    [code |-> [i \in 1 .. Len(code) |-> FoldInstr(code[i])],
     changed |-> \E i \in 1 .. Len(code) : Folds(code[i])]

STwo == <<"2">>

Reduces(t) ==
    /\ ~t.isLabel
    /\ t.arg2 # <<>>
    /\ t.op = "*"
    /\ \/ isIntLiteral(t.arg1) /\ t.arg1 = STwo
       \/ isIntLiteral(t.arg2) /\ t.arg2 = STwo

\* a rewrite that changes the operator and keeps the operands
ReduceInstrKeepTwo(t) == IF ~Reduces(t) THEN t ELSE [t EXCEPT !.op = "+"]

ReduceInstr(t) ==
    IF ~Reduces(t) THEN t
    ELSE IF isIntLiteral(t.arg1) /\ t.arg1 = STwo
         THEN [t EXCEPT !.op = "+", !.arg1 = t.arg2, !.arg2 = t.arg2]
         ELSE [t EXCEPT !.op = "+", !.arg2 = t.arg1]

strengthReduce(code) ==
    [code |-> [i \in 1 .. Len(code) |-> ReduceInstr(code[i])],
     changed |-> \E i \in 1 .. Len(code) : Reduces(code[i])]

\* unordered_map<string,string> repl: erase and operator[]=
MapErase(m, k) == [x \in DOMAIN m \ {k} |-> m[x]]
MapPut(m, k, v) == [x \in DOMAIN m \cup {k} |-> IF x = k THEN v ELSE m[x]]
EmptyMap == [x \in {} |-> <<>>]

Subst(repl, a) == IF a # <<>> /\ a \in DOMAIN repl THEN repl[a] ELSE a

\* line 157: the replacement is a literal or a temp
CopySource(a) == isIntLiteral(a) \/ isBoolLiteral(a) \/ isQuotedString(a) \/ isTemp(a)

\* lines 141-170: the loop body for the instructions from index i on
RECURSIVE CopyFrom(_, _, _, _)
CopyFrom(code, i, repl, chg) ==
    IF i > Len(code) THEN [code |-> code, changed |-> chg]
    ELSE IF code[i].isLabel THEN CopyFrom(code, i + 1, repl, chg)
    ELSE
      LET t0 == code[i]
          t == [t0 EXCEPT !.arg1 = Subst(repl, t0.arg1), !.arg2 = Subst(repl, t0.arg2)]
          replaced == \/ t0.arg1 # <<>> /\ t0.arg1 \in DOMAIN repl
                      \/ t0.arg2 # <<>> /\ t0.arg2 \in DOMAIN repl
          records == t.op = "assign" /\ isTemp(t.res) /\ CopySource(t.arg1)
          repl1 == IF t.op = "assign" /\ isTemp(t.res)
                   THEN (IF CopySource(t.arg1) THEN MapPut(repl, t.res, t.arg1) ELSE repl)
                   ELSE (IF isTemp(t.res) THEN MapErase(repl, t.res) ELSE repl)
          repl2 == IF t.op = "call" /\ isTemp(t.res) THEN MapErase(repl1, t.res) ELSE repl1
      IN CopyFrom([code EXCEPT ![i] = t], i + 1, repl2, chg \/ replaced \/ records)

copyPropagate(code) == CopyFrom(code, 1, EmptyMap, FALSE)

\* lines 179-185
UsedTemps(code) ==
    {code[i].arg1 : i \in {j \in 1 .. Len(code) :
          ~code[j].isLabel /\ code[j].arg1 # <<>> /\ isTemp(code[j].arg1)}}
    \cup
    {code[i].arg2 : i \in {j \in 1 .. Len(code) :
          ~code[j].isLabel /\ code[j].arg2 # <<>> /\ isTemp(code[j].arg2)}}

\* lines 201-203: the ops deadCodeElim may delete
PureOps == {"assign", "+", "-", "*", "/", "%", "<", ">", "<=", ">=", "==", "!=", "&&", "||", "!"}

\* a deadCodeElim that takes `call` for a pure op
RemovableOrCall(o) == o \in PureOps \cup {"call"}

Removable(o) == o \in PureOps

\* lines 217-224: does operand a appear in an instruction other than i
Appears(code, i, a) ==
    \E j \in 1 .. Len(code) :
        j # i /\ ~code[j].isLabel /\ (code[j].arg1 = a \/ code[j].arg2 = a)

\* lines 216-235: `used` after instruction i was dropped
UsedAfterDrop(code, i, used) ==
    LET t == code[i]
        u1 == IF t.arg1 # <<>> /\ isTemp(t.arg1) /\ ~Appears(code, i, t.arg1)
              THEN used \ {t.arg1} ELSE used
    IN IF t.arg2 # <<>> /\ isTemp(t.arg2) /\ ~Appears(code, i, t.arg2)
       THEN u1 \ {t.arg2} ELSE u1

\* a deadCodeElim that builds newCode back to front
push_front(newCode, t) == <<t>> \o newCode

\* lines 195, 213: newCode.push_back(t)
push_back(newCode, t) == Append(newCode, t)

\* lines 193-237: one round of the removal loop, from index i on
RECURSIVE DceRound(_, _, _, _, _)
DceRound(code, i, used, newCode, anyRemoved) ==
    IF i > Len(code) THEN [code |-> newCode, used |-> used, anyRemoved |-> anyRemoved]
    ELSE
      LET t == code[i] IN
      IF t.isLabel THEN DceRound(code, i + 1, used, push_back(newCode, t), anyRemoved)
      ELSE IF isTemp(t.res) /\ t.res \notin used /\ Removable(t.op)
           THEN DceRound(code, i + 1, UsedAfterDrop(code, i, used), newCode, TRUE)
           ELSE DceRound(code, i + 1, used, push_back(newCode, t), anyRemoved)

\* lines 189-239: while (anyRemoved)
RECURSIVE DceLoop(_, _, _)
DceLoop(code, used, chg) ==
    LET r == DceRound(code, 1, used, <<>>, FALSE)
    IN IF r.anyRemoved THEN DceLoop(r.code, r.used, TRUE)
       ELSE [code |-> r.code, changed |-> chg]

deadCodeElim(code) == DceLoop(code, UsedTemps(code), FALSE)

-----------------------------------------------------------------------------
(* ast.h: the nodes.  A null unique_ptr is the node Null.                    *)

Null == [k |-> "null"]
NumberExpr(v) == [k |-> "Number", value |-> v]
BoolExpr(v) == [k |-> "Bool", value |-> v]
StringExpr(v) == [k |-> "String", value |-> v]
VarExpr(n) == [k |-> "Var", name |-> n]
BinaryExpr(o, l, r) == [k |-> "Binary", op |-> o, left |-> l, right |-> r]
UnaryExpr(o, e) == [k |-> "Unary", op |-> o, expr |-> e]
FuncCallExpr(n, a) == [k |-> "FuncCall", name |-> n, args |-> a]

BlockStmt(ss) == [k |-> "Block", stmts |-> ss]
VarDeclStmt(ty, n, i) == [k |-> "VarDecl", type |-> ty, name |-> n, init |-> i]
AssignStmt(n, v) == [k |-> "Assign", name |-> n, value |-> v]
PrintStmt(e) == [k |-> "Print", expr |-> e]
FuncCallStmt(n, a) == [k |-> "FuncCallStmt", name |-> n, args |-> a]
ReturnStmt(v) == [k |-> "Return", value |-> v]
InputStmt(n) == [k |-> "Input", name |-> n]
NewlineStmt == [k |-> "Newline"]
IfStmt(c, th, el) == [k |-> "If", cond |-> c, then_block |-> th, else_block |-> el]
WhileStmt(c, b) == [k |-> "While", cond |-> c, block |-> b]
ForStmt(v, s, e, b) == [k |-> "For", var |-> v, start |-> s, end |-> e, block |-> b]
FuncParam(ty, n) == [type |-> ty, name |-> n]
FuncDecl(n, ps, b) == [k |-> "FuncDecl", name |-> n, params |-> ps, body |-> b]
Program(ds) == [decls |-> ds]

\* dynamic_cast<Stmt*>: every node but a FuncDecl is a Stmt
IsStmt(n) == n.k \notin {"FuncDecl", "null"}

-----------------------------------------------------------------------------
(* lexer.cpp.  The lexer is [source, pos, line, tokens, starts]: source, pos *)
(* (0-based) and line as in the class, tokens the vector tokenize fills.     *)
(* starts records, for each token, the value of pos at its first character;  *)
(* the code keeps no such list, it is there to state where a lexeme began.   *)
(* A token is [type, lexeme, line]; the lexemes the code writes as literals  *)
(* ("==", "EOF") are TLA+ strings, those cut from the source are sequences   *)
(* of characters.                                                            *)

\* the '\0' that peek and advance return at the end of the source
NUL == "NUL"

Letters ==
    {"a", "b", "c", "d", "e", "f", "g", "h", "i", "j", "k", "l", "m", "n", "o",
     "p", "q", "r", "s", "t", "u", "v", "w", "x", "y", "z",
     "A", "B", "C", "D", "E", "F", "G", "H", "I", "J", "K", "L", "M", "N", "O",
     "P", "Q", "R", "S", "T", "U", "V", "W", "X", "Y", "Z"}

isalpha(c) == c \in Letters
isalnum(c) == isalpha(c) \/ isdigit(c)

Token(type, lexeme, line) == [type |-> type, lexeme |-> lexeme, line |-> line]

Lexer(src) == [source |-> src, pos |-> 0, line |-> 1, tokens |-> <<>>, starts |-> <<>>]

\* source[i] of a std::string: the terminator at i = size()
CharAt(src, i) == IF i < Len(src) THEN src[i + 1] ELSE NUL

Lexer_isAtEnd(lx) == lx.pos >= Len(lx.source)
Lexer_peek(lx) == IF Lexer_isAtEnd(lx) THEN NUL ELSE lx.source[lx.pos + 1]
Lexer_advance(lx) == IF Lexer_isAtEnd(lx) THEN lx ELSE [lx EXCEPT !.pos = @ + 1]

\* Lexer::match: its result, and the lexer it leaves
Lexer_matches(lx, expected) == ~Lexer_isAtEnd(lx) /\ lx.source[lx.pos + 1] = expected
Lexer_match(lx, expected) == IF Lexer_matches(lx, expected) THEN Lexer_advance(lx) ELSE lx

RECURSIVE skipWhitespace(_)
skipWhitespace(lx) ==
    IF Lexer_isAtEnd(lx) THEN lx
    ELSE IF Lexer_peek(lx) \in {" ", "\t", "\r"} THEN skipWhitespace(Lexer_advance(lx))
    ELSE IF Lexer_peek(lx) = "\n"
         THEN skipWhitespace(Lexer_advance([lx EXCEPT !.line = @ + 1]))
    ELSE lx

\* line 36
RECURSIVE skipLine(_)
skipLine(lx) ==
    IF ~Lexer_isAtEnd(lx) /\ Lexer_peek(lx) # "\n" THEN skipLine(Lexer_advance(lx))
    ELSE lx

\* lines 39-46
RECURSIVE skipBlock(_)
skipBlock(lx) ==
    IF Lexer_isAtEnd(lx) THEN lx
    ELSE IF Lexer_peek(lx) = "*" /\ CharAt(lx.source, lx.pos + 1) = "/"
         THEN Lexer_advance(Lexer_advance(lx))
    ELSE IF Lexer_peek(lx) = "\n"
         THEN skipBlock(Lexer_advance([lx EXCEPT !.line = @ + 1]))
    ELSE skipBlock(Lexer_advance(lx))

\* lines 38-47: the else branch of skipComment
skipCommentElse(lx) ==
    IF CharAt(lx.source, lx.pos - 1) = "/" /\ Lexer_matches(lx, "*")
    THEN skipBlock(Lexer_match(lx, "*"))
    ELSE lx

\* `match('/') && match('/')`: the second match is made only after the first
\* one succeeded and consumed a character
skipComment(lx) ==
    IF Lexer_matches(lx, "/")
    THEN IF Lexer_matches(Lexer_match(lx, "/"), "/")
         THEN skipLine(Lexer_match(Lexer_match(lx, "/"), "/"))
         ELSE skipCommentElse(Lexer_match(lx, "/"))
    ELSE skipCommentElse(lx)

makeToken(lx, type, lex) == Token(type, lex, lx.line)

\* tokens.push_back(tok), for a lexeme that began at pos = start
pushToken(lx, tok, start) ==
    [lx EXCEPT !.tokens = Append(@, tok), !.starts = Append(@, start)]

\* source.substr(start, pos - start)
Lexeme(lx, start) == SubSeq(lx.source, start + 1, lx.pos)

Keywords ==
    {<<<<"i", "n", "t">>, "KW_INT">>,
     <<<<"b", "o", "o", "l">>, "KW_BOOL">>,
     <<<<"s", "t", "r", "i", "n", "g">>, "KW_STRING">>,
     <<<<"f", "u", "n", "c">>, "KW_FUNC">>,
     <<<<"f", "o", "r">>, "KW_FOR">>,
     <<<<"t", "o">>, "KW_TO">>,
     <<<<"w", "h", "i", "l", "e">>, "KW_WHILE">>,
     <<<<"i", "f">>, "KW_IF">>,
     <<<<"e", "l", "s", "e">>, "KW_ELSE">>,
     <<<<"r", "e", "t", "u", "r", "n">>, "KW_RETURN">>,
     <<<<"p", "r", "i", "n", "t">>, "KW_PRINT">>,
     <<<<"i", "n", "p", "u", "t">>, "KW_INPUT">>,
     <<<<"n", "e", "w", "l", "i", "n", "e">>, "KW_NEWLINE">>,
     <<<<"p", "a", "t", "t", "e", "r", "n">>, "KW_PATTERN">>,
     <<<<"t", "r", "u", "e">>, "BOOL_LITERAL">>,
     <<<<"f", "a", "l", "s", "e">>, "BOOL_LITERAL">>}

\* lines 59-76
WordType(text) ==
    IF \E k \in Keywords : k[1] = text
    THEN (CHOOSE k \in Keywords : k[1] = text)[2]
    ELSE "ID"

\* line 56
RECURSIVE scanWord(_)
scanWord(lx) ==
    IF isalnum(Lexer_peek(lx)) \/ Lexer_peek(lx) = "_" THEN scanWord(Lexer_advance(lx))
    ELSE lx

\* Lexer::identifier, called with pos behind the first character, and the
\* push_back of its token
identifier(lx) ==
    LET start == lx.pos - 1
        made(l) == pushToken(l, makeToken(l, WordType(Lexeme(l, start)), Lexeme(l, start)),
                             start)
    IN made(scanWord(lx))

\* line 81
RECURSIVE scanDigits(_)
scanDigits(lx) ==
    IF isdigit(Lexer_peek(lx)) THEN scanDigits(Lexer_advance(lx)) ELSE lx

\* Lexer::number and the push_back of its token
number(lx) ==
    LET start == lx.pos - 1
        made(l) == pushToken(l, makeToken(l, "INT_LITERAL", Lexeme(l, start)), start)
    IN made(scanDigits(lx))

\* lines 88-91
RECURSIVE scanString(_)
scanString(lx) ==
    IF ~Lexer_isAtEnd(lx) /\ Lexer_peek(lx) # "\""
    THEN scanString(Lexer_advance(IF Lexer_peek(lx) = "\\" THEN Lexer_advance(lx) ELSE lx))
    ELSE lx

\* Lexer::stringLiteral, called with pos behind the opening quote, and the
\* push_back of its token.  pos - start - 1 is a size_t: for pos = start it
\* wraps and substr takes the rest of the source.
stringLiteral(lx) ==
    LET start == lx.pos
        text(l) == IF l.pos = start THEN SubSeq(l.source, start + 1, Len(l.source))
                   ELSE SubSeq(l.source, start + 1, l.pos - 1)
        made(l) == pushToken(l, makeToken(l, "STRING_LITERAL", text(l)), start - 1)
    IN made(Lexer_advance(scanString(lx)))

\* lines 137-165: an operator of one or two characters; `second` is the
\* character match() looks for
twoChar(lx, start, second, both, bothType, alone, aloneType) ==
    IF Lexer_matches(lx, second)
    THEN pushToken(Lexer_match(lx, second),
                   makeToken(lx, bothType, both), start)
    ELSE pushToken(lx, makeToken(lx, aloneType, alone), start)

\* lines 130-177: the switch on c
lexSymbol(lx, c, start) ==
    CASE c = "+" -> pushToken(lx, makeToken(lx, "PLUS", "+"), start)
      [] c = "-" -> pushToken(lx, makeToken(lx, "MINUS", "-"), start)
      [] c = "*" -> pushToken(lx, makeToken(lx, "MUL", "*"), start)
      [] c = "%" -> pushToken(lx, makeToken(lx, "MOD", "%"), start)
      [] c = "/" -> pushToken(lx, makeToken(lx, "DIV", "/"), start)
      [] c = "=" -> twoChar(lx, start, "=", "==", "EQ", "=", "ASSIGN")
      [] c = "!" -> twoChar(lx, start, "=", "!=", "NEQ", "!", "NOT")
      [] c = "<" -> twoChar(lx, start, "=", "<=", "LEQ", "<", "LT")
      [] c = ">" -> twoChar(lx, start, "=", ">=", "GEQ", ">", "GT")
      [] c = "&" -> twoChar(lx, start, "&", "&&", "AND", "&", "UNKNOWN")
      [] c = "|" -> twoChar(lx, start, "|", "||", "OR", "|", "UNKNOWN")
      [] c = "(" -> pushToken(lx, makeToken(lx, "LPAREN", "("), start)
      [] c = ")" -> pushToken(lx, makeToken(lx, "RPAREN", ")"), start)
      [] c = "{" -> pushToken(lx, makeToken(lx, "LBRACE", "{"), start)
      [] c = "}" -> pushToken(lx, makeToken(lx, "RBRACE", "}"), start)
      [] c = "," -> pushToken(lx, makeToken(lx, "COMMA", ","), start)
      [] c = ";" -> pushToken(lx, makeToken(lx, "SEMICOLON", ";"), start)
      [] OTHER -> pushToken(lx, makeToken(lx, "UNKNOWN", <<c>>), start)

\* lines 105-177: the body of the loop of tokenize after `c = advance()`;
\* lx is the lexer behind c, start the position of c
lexChar(lx, c, start) ==
    IF c = "/" /\ Lexer_peek(lx) \in {"/", "*"} THEN skipComment(lx)
    ELSE IF isalpha(c) \/ c = "_" THEN identifier(lx)
    ELSE IF isdigit(c) THEN number(lx)
    ELSE IF c = "\"" THEN stringLiteral(lx)
    ELSE lexSymbol(lx, c, start)

\* lines 101-105
lexOne(lx) ==
    IF Lexer_isAtEnd(lx) THEN lx
    ELSE lexChar(Lexer_advance(lx), Lexer_peek(lx), lx.pos)

\* the lexer before any source was given to it
NoLexer == Lexer(<<>>)

LexUnchanged ==
    UNCHANGED <<program, sa, tac, out, changed, iterations, first, round,
                emitted, runs, garbage, parser, interp, node, lastCall>>

\* lines 100-178: one round of the loop of tokenize
Scan ==
    /\ stage = "lex"
    /\ ~Lexer_isAtEnd(lexer)
    /\ lexer' = lexOne(skipWhitespace(lexer))
    /\ UNCHANGED stage
    /\ LexUnchanged

\* lines 180-181: the loop has ended
Finish ==
    /\ stage = "lex"
    /\ Lexer_isAtEnd(lexer)
    /\ lexer' = pushToken(lexer, makeToken(lexer, "END_OF_FILE", "EOF"), lexer.pos)
    /\ stage' = "lexed"
    /\ LexUnchanged

-----------------------------------------------------------------------------
(* parser.cpp: the expression grammar, lines 312-415.  The parser is          *)
(* [tokens, current, failed, expr]: tokens and current (0-based) as in the    *)
(* class, failed whether exit(1) was called, expr the tree Parser::expr       *)
(* returned.  A parsing function yields [p, e]: the parser it leaves and the  *)
(* node it returns.                                                           *)

Parser(toks) == [tokens |-> toks, current |-> 0, failed |-> FALSE, expr |-> Null]

Parsed(p, e) == [p |-> p, e |-> e]

Parser_peek(p) == p.tokens[p.current + 1]
Parser_isAtEnd(p) == Parser_peek(p).type = "END_OF_FILE"
Parser_advance(p) == IF Parser_isAtEnd(p) THEN p ELSE [p EXCEPT !.current = @ + 1]
check(p, t) == ~Parser_isAtEnd(p) /\ Parser_peek(p).type = t

\* the condition of a loop `while (match(A) || match(B) ...)`
matchAny(p, ts) == ~p.failed /\ \E t \in ts : check(p, t)

\* the exit(1) of expect and of primary
exit(p) == [p EXCEPT !.failed = TRUE]

expect(p, t) == IF check(p, t) THEN Parser_advance(p) ELSE exit(p)

RECURSIVE logic_or(_), logic_and(_), equality(_), rel(_), add(_), mul(_)
RECURSIVE parse_unary(_), primary(_)

\* Parser::expr
expr(p) == logic_or(p)

\* lines 316-319: the loop of logic_or, `left` so far in l.e
RECURSIVE logic_or_loop(_)
logic_or_loop(l) ==
    IF ~matchAny(l.p, {"OR"}) THEN l
    ELSE LET op == Parser_peek(l.p).lexeme
             join(r) == Parsed(r.p, BinaryExpr(op, l.e, r.e))
         IN logic_or_loop(join(logic_and(Parser_advance(l.p))))

logic_or(p) == logic_or_loop(logic_and(p))

\* lines 325-328
RECURSIVE logic_and_loop(_)
logic_and_loop(l) ==
    IF ~matchAny(l.p, {"AND"}) THEN l
    ELSE LET op == Parser_peek(l.p).lexeme
             join(r) == Parsed(r.p, BinaryExpr(op, l.e, r.e))
         IN logic_and_loop(join(equality(Parser_advance(l.p))))

logic_and(p) == logic_and_loop(equality(p))

\* lines 334-337
RECURSIVE equality_loop(_)
equality_loop(l) ==
    IF ~matchAny(l.p, {"EQ", "NEQ"}) THEN l
    ELSE LET op == Parser_peek(l.p).lexeme
             join(r) == Parsed(r.p, BinaryExpr(op, l.e, r.e))
         IN equality_loop(join(rel(Parser_advance(l.p))))

equality(p) == equality_loop(rel(p))

\* lines 343-347
RECURSIVE rel_loop(_)
rel_loop(l) ==
    IF ~matchAny(l.p, {"LT", "GT", "LEQ", "GEQ"}) THEN l
    ELSE LET op == Parser_peek(l.p).lexeme
             join(r) == Parsed(r.p, BinaryExpr(op, l.e, r.e))
         IN rel_loop(join(add(Parser_advance(l.p))))

rel(p) == rel_loop(add(p))

\* an add whose right operand is parsed by add: a - b - c read as a - (b - c)
RECURSIVE add_loop_right(_)
add_loop_right(l) ==
    IF ~matchAny(l.p, {"PLUS", "MINUS"}) THEN l
    ELSE LET op == Parser_peek(l.p).lexeme
             join(r) == Parsed(r.p, BinaryExpr(op, l.e, r.e))
         IN add_loop_right(join(add(Parser_advance(l.p))))

\* lines 353-356
RECURSIVE add_loop(_)
add_loop(l) ==
    IF ~matchAny(l.p, {"PLUS", "MINUS"}) THEN l
    ELSE LET op == Parser_peek(l.p).lexeme
             join(r) == Parsed(r.p, BinaryExpr(op, l.e, r.e))
         IN add_loop(join(mul(Parser_advance(l.p))))

add(p) == add_loop(mul(p))

\* lines 362-365
RECURSIVE mul_loop(_)
mul_loop(l) ==
    IF ~matchAny(l.p, {"MUL", "DIV", "MOD"}) THEN l
    ELSE LET op == Parser_peek(l.p).lexeme
             join(r) == Parsed(r.p, BinaryExpr(op, l.e, r.e))
         IN mul_loop(join(parse_unary(Parser_advance(l.p))))

mul(p) == mul_loop(parse_unary(p))

\* Parser::unary
parse_unary(p) ==
    IF matchAny(p, {"NOT", "MINUS"})
    THEN LET op == Parser_peek(p).lexeme
             wrap(r) == Parsed(r.p, UnaryExpr(op, r.e))
         IN wrap(parse_unary(Parser_advance(p)))
    ELSE primary(p)

\* lines 400-404: the arguments of a call, the first token of one at current
RECURSIVE callArgs(_, _)
callArgs(p, args) ==
    LET next(r) == IF matchAny(r.p, {"COMMA"})
                   THEN callArgs(Parser_advance(r.p), Append(args, r.e))
                   ELSE [p |-> r.p, args |-> Append(args, r.e)]
    IN next(expr(p))

\* lines 397-408: a call, current behind its `(`
callExpr(p, id) ==
    LET close(r) == Parsed(expect(r.p, "RPAREN"), FuncCallExpr(id, r.args))
    IN IF check(p, "RPAREN") THEN close([p |-> p, args |-> <<>>])
       ELSE close(callArgs(p, <<>>))

\* Parser::primary
primary(p) ==
    IF p.failed THEN Parsed(p, Null)
    ELSE IF check(p, "INT_LITERAL")
         THEN Parsed(Parser_advance(p), NumberExpr(Parser_peek(p).lexeme))
    ELSE IF check(p, "BOOL_LITERAL")
         THEN Parsed(Parser_advance(p), BoolExpr(Parser_peek(p).lexeme))
    ELSE IF check(p, "STRING_LITERAL")
         THEN Parsed(Parser_advance(p), StringExpr(Parser_peek(p).lexeme))
    ELSE IF check(p, "LPAREN")
         THEN LET close(r) == Parsed(expect(r.p, "RPAREN"), r.e)
              IN close(expr(Parser_advance(p)))
    ELSE IF check(p, "ID")
         THEN IF check(Parser_advance(p), "LPAREN")
              THEN callExpr(Parser_advance(Parser_advance(p)), Parser_peek(p).lexeme)
              ELSE Parsed(Parser_advance(p), VarExpr(Parser_peek(p).lexeme))
    ELSE Parsed(exit(p), Null)

\* the parser before any tokens were given to it
NoParser == Parser(<<>>)

\* a call of Parser::expr
ParseExpr ==
    /\ stage = "parse"
    /\ LET done(r) == [r.p EXCEPT !.expr = r.e]
       IN parser' = done(expr(parser))
    /\ stage' = IF parser'.failed THEN "fatal" ELSE "parsed_expr"
    /\ UNCHANGED <<program, sa, tac, out, changed, iterations, first, round,
                   emitted, runs, garbage, lexer, interp, node, lastCall>>

-----------------------------------------------------------------------------
(* ir_generator.cpp.  The generator is [code, tmpCount, labelCount].         *)

NewIRGenerator == [code |-> <<>>, tmpCount |-> 0, labelCount |-> 0]

emit(g, t) == [g EXCEPT !.code = Append(g.code, t)]
TempName(n) == <<"t">> \o to_string(n)
LabelName(n) == <<"L">> \o to_string(n)
emitAssign(g, dst, src) == emit(g, Instr("assign", src, <<>>, dst))

SZero == <<"0">>
SOne == <<"1">>
SEmptyQuoted == <<"\"", "\"">>
SFuncPrefix == <<"f", "u", "n", "c", "_">>
SEndFuncPrefix == <<"e", "n", "d", "f", "u", "n", "c", "_">>
SArgSep == <<",", " ">>

\* a fresh temp (newTemp) that takes the result of `a1 o a2`, emitted
emitTemp(g, o, a1, a2) ==
    [g |-> emit([g EXCEPT !.tmpCount = g.tmpCount + 1],
                Instr(o, a1, a2, TempName(g.tmpCount + 1))),
     v |-> TempName(g.tmpCount + 1)]

RECURSIVE genExpr(_, _)
RECURSIVE genArgs(_, _, _, _)

\* lines 68-72: the argument loop of a call, from argument i on
genArgs(g, args, i, argList) ==
    IF i > Len(args) THEN [g |-> g, v |-> argList]
    ELSE LET rest(a) == genArgs(a.g, args, i + 1,
                                IF i = 1 THEN a.v ELSE argList \o SArgSep \o a.v)
         IN rest(genExpr(g, args[i]))

\* IRGenerator::genExpr: the generator after the call, and the operand returned
genExpr(g, e) ==
    CASE e.k = "null" -> [g |-> g, v |-> SZero]
      [] e.k = "Number" -> [g |-> g, v |-> e.value]
      [] e.k = "Bool" -> [g |-> g, v |-> IF e.value = STrue THEN STrue ELSE SFalse]
      [] e.k = "String" -> [g |-> g, v |-> <<"\"">> \o e.value \o <<"\"">>]
      [] e.k = "Var" -> [g |-> g, v |-> e.name]
      [] e.k = "FuncCall" ->
           LET call(a) == emitTemp(a.g, "call", e.name, a.v)
           IN call(genArgs(g, e.args, 1, <<>>))
      [] e.k = "Unary" ->
           LET apply(a) == emitTemp(a.g, e.op, a.v, <<>>)
           IN apply(genExpr(g, e.expr))
      [] e.k = "Binary" ->
           LET apply(l, r) == emitTemp(r.g, e.op, l.v, r.v)
               right(l) == apply(l, genExpr(l.g, e.right))
           IN right(genExpr(g, e.left))
      [] OTHER -> [g |-> g, v |-> SZero]

\* emitAssign(name, genExpr(..)) and emit of a one-operand instruction
assignResult(r, name) == emitAssign(r.g, name, r.v)
emitResult(r, o) == emit(r.g, Instr(o, r.v, <<>>, <<>>))

\* lines 99-108 and 32-42: a declaration with or without initializer
genVarDecl(g, v) ==
    IF v.init.k # "null" THEN assignResult(genExpr(g, v.init), v.name)
    ELSE IF v.type = "int" THEN emitAssign(g, v.name, SZero)
    ELSE IF v.type = "bool" THEN emitAssign(g, v.name, SFalse)
    ELSE emitAssign(g, v.name, SEmptyQuoted)

RECURSIVE genStmt(_, _)
RECURSIVE genStmts(_, _, _)

\* genBlock, and the statement loop of genFunc: the statements from index i on
genStmts(g, ss, i) ==
    IF i > Len(ss) THEN g ELSE genStmts(genStmt(g, ss[i]), ss, i + 1)

genBlock(g, b) == IF b.k = "null" THEN g ELSE genStmts(g, b.stmts, 1)

\* lines 133-156: for VAR = START to END BLOCK
genFor(g, s) ==
    LET Lbegin(g1) == LabelName(g1.labelCount + 1)
        Lend(g1) == LabelName(g1.labelCount + 2)
        \* i = i + 1; goto Lbegin; Lend:
        step(g5, lb, le) ==
            emit(emit(emitAssign(emitTemp(g5, "+", s.var, SOne).g, s.var,
                                 TempName(g5.tmpCount + 1)),
                      Instr("goto", <<>>, <<>>, lb)),
                 Label(le))
        \* ifFalse tcond goto Lend; the body
        body(c, lb, le) ==
            step(genBlock(emit(c.g, Instr("ifFalse", c.v, <<>>, le)), s.block), lb, le)
        \* tcond = i <= end
        cond(en, lb, le) == body(emitTemp(en.g, "<=", s.var, en.v), lb, le)
        \* Lbegin: and the end bound
        loop(g1) ==
            cond(genExpr(emit([g1 EXCEPT !.labelCount = g1.labelCount + 2],
                              Label(Lbegin(g1))), s.end),
                 Lbegin(g1), Lend(g1))
    IN loop(assignResult(genExpr(g, s.start), s.var))

\* lines 157-168: while COND BLOCK
genWhile(g, s) ==
    LET Lbegin == LabelName(g.labelCount + 1)
        Lend == LabelName(g.labelCount + 2)
        body(c) ==
            emit(emit(genBlock(emit(c.g, Instr("ifFalse", c.v, <<>>, Lend)), s.block),
                      Instr("goto", <<>>, <<>>, Lbegin)),
                 Label(Lend))
    IN body(genExpr(emit([g EXCEPT !.labelCount = g.labelCount + 2], Label(Lbegin)),
                    s.cond))

\* lines 169-184: if COND BLOCK [else BLOCK]
genIf(g, s) ==
    LET Lelse == LabelName(g.labelCount + 1)
        Lend == LabelName(g.labelCount + 2)
        hasElse == s.else_block.k # "null"
        else(g3) ==
            emit(IF hasElse THEN genBlock(emit(g3, Label(Lelse)), s.else_block) ELSE g3,
                 Label(Lend))
        then(c) ==
            else(emit(genBlock(emit(c.g, Instr("ifFalse", c.v, <<>>,
                                            IF hasElse THEN Lelse ELSE Lend)),
                               s.then_block),
                      Instr("goto", <<>>, <<>>, Lend)))
    IN then(genExpr([g EXCEPT !.labelCount = g.labelCount + 2], s.cond))

\* IRGenerator::genStmt; input and call statements have no branch
genStmt(g, s) ==
    CASE s.k = "VarDecl" -> genVarDecl(g, s)
      [] s.k = "Assign" -> assignResult(genExpr(g, s.value), s.name)
      [] s.k = "Print" -> emitResult(genExpr(g, s.expr), "print")
      [] s.k = "Newline" -> emit(g, Instr("newline", <<>>, <<>>, <<>>))
      [] s.k = "Return" ->
           IF s.value.k # "null" THEN emitResult(genExpr(g, s.value), "return")
           ELSE emit(g, Instr("return", <<>>, <<>>, <<>>))
      [] s.k = "For" -> genFor(g, s)
      [] s.k = "While" -> genWhile(g, s)
      [] s.k = "If" -> genIf(g, s)
      [] s.k = "Block" -> genBlock(g, s)
      [] OTHER -> g

\* a genFunc that emits no endfunc_ label after the final return
genFuncNoEnd(g, f) ==
    LET body(g1) == IF f.body.k # "null" THEN genStmts(g1, f.body.stmts, 1) ELSE g1
    IN emit(body(emit(g, Label(SFuncPrefix \o f.name))),
            Instr("return", <<>>, <<>>, <<>>))

\* lines 196-212
genFunc(g, f) ==
    LET body(g1) == IF f.body.k # "null" THEN genStmts(g1, f.body.stmts, 1) ELSE g1
    IN emit(emit(body(emit(g, Label(SFuncPrefix \o f.name))),
                 Instr("return", <<>>, <<>>, <<>>)),
            Label(SEndFuncPrefix \o f.name))

\* lines 25-29: functions first
RECURSIVE genFuncs(_, _, _)
genFuncs(g, ds, i) ==
    IF i > Len(ds) THEN g
    ELSE genFuncs(IF ds[i].k = "FuncDecl" THEN genFunc(g, ds[i]) ELSE g, ds, i + 1)

\* lines 31-46: globals and top-level statements
RECURSIVE genTop(_, _, _)
genTop(g, ds, i) ==
    IF i > Len(ds) THEN g
    ELSE genTop(IF ds[i].k = "VarDecl" THEN genVarDecl(g, ds[i])
                ELSE IF IsStmt(ds[i]) THEN genStmt(g, ds[i]) ELSE g, ds, i + 1)

\* IRGenerator::generate followed by getTAC
generate(prog) == genTop(genFuncs(NewIRGenerator, prog.decls, 1), prog.decls, 1).code

-----------------------------------------------------------------------------
(* symbol_table.h and sema.cpp.  The analyzer is                             *)
(*   [scopes, inFunction, currentFunctionReturnType, stderr, exited]:        *)
(* scopes is SymbolTable::scopes, stderr the diagnostics written so far,     *)
(* exited whether exit(1) was called.                                        *)

Types == {"int", "bool", "string", "void", "unknown"}

\* SemanticAnalyzer::stringToType
stringToType(ty) == IF ty \in {"int", "bool", "string"} THEN ty ELSE "unknown"

\* struct Symbol, as the two ways the analyzer fills it
VarSymbol(n, ty) ==
    [name |-> n, type |-> ty, isFunction |-> FALSE, paramTypes |-> <<>>,
     returnType |-> "unknown"]
FuncSymbol(n, pts) ==
    [name |-> n, type |-> "unknown", isFunction |-> TRUE, paramTypes |-> pts,
     returnType |-> "unknown"]

NewAnalyzer ==
    [scopes |-> <<EmptyMap>>, inFunction |-> FALSE,
     currentFunctionReturnType |-> "void", stderr |-> <<>>, exited |-> FALSE]

\* an error() that writes the diagnostic and returns
errorNoExit(a, msg) == [a EXCEPT !.stderr = Append(@, msg)]

\* SemanticAnalyzer::error: write the diagnostic, exit(1)
error(a, msg) == [a EXCEPT !.stderr = Append(@, msg), !.exited = TRUE]

pushScope(a) == [a EXCEPT !.scopes = Append(@, EmptyMap)]
popScope(a) == [a EXCEPT !.scopes = SubSeq(@, 1, Len(@) - 1)]
existsInCurrent(scopes, n) == n \in DOMAIN scopes[Len(scopes)]
insert(a, sym) == [a EXCEPT !.scopes[Len(a.scopes)] = MapPut(@, sym.name, sym)]

\* SymbolTable::lookup: the index of the innermost scope holding n, 0 for nullptr
RECURSIVE lookupFrom(_, _, _)
lookupFrom(scopes, n, i) ==
    IF i = 0 THEN 0
    ELSE IF n \in DOMAIN scopes[i] THEN i
    ELSE lookupFrom(scopes, n, i - 1)

lookup(scopes, n) == lookupFrom(scopes, n, Len(scopes))

\* analyzeExpr yields a type, or the diagnostic with which it called error()
IsType(r) == r \in Types

RECURSIVE analyzeExpr(_, _)
RECURSIVE analyzeArgs(_, _, _, _)

\* lines 111-117: the argument loop of a call, from argument i on
analyzeArgs(scopes, args, pts, i) ==
    IF i > Len(args) \/ i > Len(pts) THEN "ok"
    ELSE LET at == analyzeExpr(scopes, args[i])
         IN IF ~IsType(at) THEN at
            ELSE IF at # pts[i] THEN "Type mismatch in argument"
            ELSE analyzeArgs(scopes, args, pts, i + 1)

analyzeExpr(scopes, e) ==
    CASE e.k = "null" -> "unknown"
      [] e.k = "Number" -> "int"
      [] e.k = "Bool" -> "bool"
      [] e.k = "String" -> "string"
      [] e.k = "Var" ->
           LET i == lookup(scopes, e.name)
           IN IF i = 0 THEN "Use of undeclared variable"
              ELSE IF scopes[i][e.name].isFunction THEN "is a function, not a variable"
              ELSE scopes[i][e.name].type
      [] e.k = "FuncCall" ->
           LET i == lookup(scopes, e.name)
           IN IF i = 0 \/ ~scopes[i][e.name].isFunction THEN "Call to undeclared function"
              ELSE LET sym == scopes[i][e.name]
                   IN IF Len(sym.paramTypes) # Len(e.args) THEN "Function expects arguments"
                      ELSE LET r == analyzeArgs(scopes, e.args, sym.paramTypes, 1)
                           IN IF r # "ok" THEN r
                              ELSE IF sym.returnType = "unknown" THEN "int"
                              ELSE sym.returnType
      [] e.k = "Unary" ->
           LET sub == analyzeExpr(scopes, e.expr)
           IN IF ~IsType(sub) THEN sub
              ELSE IF e.op = "!"
                   THEN (IF sub # "bool" THEN "Operator '!' requires bool operand" ELSE "bool")
              ELSE IF e.op = "-"
                   THEN (IF sub # "int" THEN "Unary '-' requires int operand" ELSE "int")
              ELSE "unknown"
      [] e.k = "Binary" ->
           LET L == analyzeExpr(scopes, e.left)
               R == IF IsType(L) THEN analyzeExpr(scopes, e.right) ELSE L
           IN IF ~IsType(L) THEN L
              ELSE IF ~IsType(R) THEN R
              ELSE IF e.op \in {"+", "-", "*", "/", "%"}
                   THEN (IF L # "int" \/ R # "int"
                         THEN "Arithmetic operator requires integer operands" ELSE "int")
              ELSE IF e.op \in {"==", "!="}
                   THEN (IF L # R
                         THEN "Equality operator requires operands of same type" ELSE "bool")
              ELSE IF e.op \in {"<", ">", "<=", ">="}
                   THEN (IF L # "int" \/ R # "int"
                         THEN "Relational operator requires integer operands" ELSE "bool")
              ELSE IF e.op \in {"&&", "||"}
                   THEN (IF L # "bool" \/ R # "bool"
                         THEN "Logical operator requires boolean operands" ELSE "bool")
              ELSE "unknown"
      [] OTHER -> "unknown"

RECURSIVE analyzeStmt(_, _)
RECURSIVE analyzeStmts(_, _, _)

\* a statement loop: the statements from index i on, until exit
analyzeStmts(a, ss, i) ==
    IF i > Len(ss) \/ a.exited THEN a
    ELSE analyzeStmts(analyzeStmt(a, ss[i]), ss, i + 1)

\* pushScope(); analyzeStmt(block); popScope();  (block may be null)
analyzeScoped(a, b) ==
    LET a1 == IF b.k = "null" THEN pushScope(a) ELSE analyzeStmt(pushScope(a), b)
    IN IF a1.exited THEN a1 ELSE popScope(a1)

analyzeStmt(a, s) ==
    CASE s.k = "VarDecl" ->
           LET dt == stringToType(s.type)
           IN IF dt = "unknown" THEN error(a, "Unknown type in declaration")
              ELSE IF existsInCurrent(a.scopes, s.name)
                   THEN error(a, "Redeclaration of variable")
              ELSE LET a1 == insert(a, VarSymbol(s.name, dt))
                       rt == analyzeExpr(a1.scopes, s.init)
                   IN IF s.init.k = "null" THEN a1
                      ELSE IF ~IsType(rt) THEN error(a1, rt)
                      ELSE IF rt # dt THEN error(a1, "Type mismatch in initialization")
                      ELSE a1
      [] s.k = "Assign" ->
           LET i == lookup(a.scopes, s.name)
               rt == analyzeExpr(a.scopes, s.value)
           IN IF i = 0 THEN error(a, "Assignment to undeclared variable")
              ELSE IF a.scopes[i][s.name].isFunction THEN error(a, "Cannot assign to function")
              ELSE IF ~IsType(rt) THEN error(a, rt)
              ELSE IF rt # a.scopes[i][s.name].type
                   THEN error(a, "Type mismatch in assignment")
              ELSE a
      [] s.k = "Print" ->
           LET rt == analyzeExpr(a.scopes, s.expr)
           IN IF ~IsType(rt) THEN error(a, rt) ELSE a
      [] s.k = "Input" ->
           IF lookup(a.scopes, s.name) = 0 THEN error(a, "Input to undeclared variable")
           ELSE a
      [] s.k = "Newline" -> a
      [] s.k = "Return" ->
           LET rt == analyzeExpr(a.scopes, s.value)
           IN IF ~a.inFunction THEN error(a, "Return statement outside of function")
              ELSE IF s.value.k = "null" THEN a
              ELSE IF ~IsType(rt) THEN error(a, rt)
              ELSE IF a.currentFunctionReturnType # "unknown"
                      /\ rt # a.currentFunctionReturnType
                   THEN error(a, "Return type mismatch")
              ELSE a
      [] s.k = "For" ->
           LET i == lookup(a.scopes, s.var)
               bad == existsInCurrent(a.scopes, s.var) /\ a.scopes[i][s.var].type # "int"
               a1 == IF existsInCurrent(a.scopes, s.var) THEN a
                     ELSE insert(a, VarSymbol(s.var, "int"))
               st == analyzeExpr(a1.scopes, s.start)
               en == IF IsType(st) THEN analyzeExpr(a1.scopes, s.end) ELSE st
           IN IF bad THEN error(a, "Loop variable must be int")
              ELSE IF ~IsType(st) THEN error(a1, st)
              ELSE IF ~IsType(en) THEN error(a1, en)
              ELSE IF st # "int" \/ en # "int"
                   THEN error(a1, "For loop bounds must be integers")
              ELSE analyzeScoped(a1, s.block)
      [] s.k = "While" ->
           LET ct == analyzeExpr(a.scopes, s.cond)
           IN IF ~IsType(ct) THEN error(a, ct)
              ELSE IF ct # "bool" THEN error(a, "While condition must be boolean")
              ELSE analyzeScoped(a, s.block)
      [] s.k = "If" ->
           LET ct == analyzeExpr(a.scopes, s.cond)
           IN IF ~IsType(ct) THEN error(a, ct)
              ELSE IF ct # "bool" THEN error(a, "If condition must be boolean")
              ELSE LET a1 == analyzeScoped(a, s.then_block)
                   IN IF a1.exited \/ s.else_block.k = "null" THEN a1
                      ELSE analyzeScoped(a1, s.else_block)
      [] s.k = "Block" ->
           LET a1 == analyzeStmts(pushScope(a), s.stmts, 1)
           IN IF a1.exited THEN a1 ELSE popScope(a1)
      [] OTHER -> a


RECURSIVE walkStmt(_, _, _)
RECURSIVE walkStmts(_, _, _, _)

\* the statement loops of walkStmt and of the body walk, from index i on
walkStmts(a, ss, i, fname) ==
    IF i > Len(ss) \/ a.exited THEN a
    ELSE walkStmts(walkStmt(a, ss[i], fname), ss, i + 1, fname)

\* pushScope(); walkStmt(block); popScope();
walkScoped(a, b, fname) ==
    LET a1 == IF b.k = "null" THEN pushScope(a) ELSE walkStmt(pushScope(a), b, fname)
    IN IF a1.exited THEN a1 ELSE popScope(a1)

\* lines 290-348: the lambda walkStmt of analyzeFuncDecl
walkStmt(a, s, fname) ==
    CASE s.k = "Return" ->
           LET rt == analyzeExpr(a.scopes, s.value)
           IN IF s.value.k # "null"
              THEN IF ~IsType(rt) THEN error(a, rt)
                   ELSE IF a.currentFunctionReturnType = "unknown"
                        THEN [a EXCEPT !.currentFunctionReturnType = rt]
                   ELSE IF a.currentFunctionReturnType # rt
                        THEN error(a, "Inconsistent return types in function")
                   ELSE a
              ELSE IF a.currentFunctionReturnType = "unknown"
                   THEN [a EXCEPT !.currentFunctionReturnType = "void"]
              ELSE IF a.currentFunctionReturnType # "void"
                   THEN error(a, "Inconsistent return types (void vs non-void) in function")
              ELSE a
      [] s.k = "Block" ->
           LET a1 == walkStmts(pushScope(a), s.stmts, 1, fname)
           IN IF a1.exited THEN a1 ELSE popScope(a1)
      [] s.k = "If" ->
           LET ct == analyzeExpr(a.scopes, s.cond)
           IN IF ~IsType(ct) THEN error(a, ct)
              ELSE LET a1 == walkScoped(a, s.then_block, fname)
                   IN IF a1.exited \/ s.else_block.k = "null" THEN a1
                      ELSE walkScoped(a1, s.else_block, fname)
      [] s.k = "For" ->
           LET st == analyzeExpr(a.scopes, s.start)
               en == IF IsType(st) THEN analyzeExpr(a.scopes, s.end) ELSE st
           IN IF ~IsType(st) THEN error(a, st)
              ELSE IF ~IsType(en) THEN error(a, en)
              ELSE walkScoped(a, s.block, fname)
      [] s.k = "While" ->
           LET ct == analyzeExpr(a.scopes, s.cond)
           IN IF ~IsType(ct) THEN error(a, ct)
              ELSE walkScoped(a, s.block, fname)
      [] OTHER -> analyzeStmt(a, s)

\* lines 281-285: insert the parameters, from parameter i on
RECURSIVE insertParams(_, _, _)
insertParams(a, ps, i) ==
    IF i > Len(ps) \/ a.exited THEN a
    ELSE IF existsInCurrent(a.scopes, ps[i].name)
         THEN error(a, "Parameter name duplicated")
    ELSE insertParams(insert(a, VarSymbol(ps[i].name, stringToType(ps[i].type))), ps, i + 1)

\* lines 356-363: write the inferred return type into the symbol lookup() finds
saveReturnType(a, fname) ==
    LET i == lookup(a.scopes, fname)
    IN IF i # 0 /\ a.scopes[i][fname].isFunction
       THEN [a EXCEPT !.scopes[i][fname].returnType =
                IF a.currentFunctionReturnType # "unknown"
                THEN a.currentFunctionReturnType ELSE "void"]
       ELSE a

\* lines 273-368
analyzeFuncDecl(a, f) ==
    LET a0 == pushScope([a EXCEPT !.inFunction = TRUE,
                                  !.currentFunctionReturnType = "unknown"])
        a1 == insertParams(a0, f.params, 1)
        a2 == IF a1.exited \/ f.body.k = "null" THEN a1
              ELSE walkStmts(a1, f.body.stmts, 1, f.name)
    IN IF a2.exited THEN a2
       ELSE [popScope(saveReturnType(a2, f.name)) EXCEPT
                !.inFunction = FALSE, !.currentFunctionReturnType = "void"]

\* insertGlobal, then error on a redefinition
registerDecl(a, d) ==
    IF d.k = "FuncDecl"
    THEN IF d.name \in DOMAIN a.scopes[1] THEN error(a, "Redefinition of function")
         ELSE [a EXCEPT !.scopes[1] =
                 MapPut(@, d.name, FuncSymbol(d.name,
                     [i \in 1 .. Len(d.params) |-> stringToType(d.params[i].type)]))]
    ELSE IF d.k = "VarDecl"
    THEN IF stringToType(d.type) = "unknown" THEN error(a, "Unknown type for variable")
         ELSE IF existsInCurrent(a.scopes, d.name) THEN error(a, "Redefinition of variable")
         ELSE insert(a, VarSymbol(d.name, stringToType(d.type)))
    ELSE a

\* lines 27-57: first pass, from declaration i on
RECURSIVE registerAll(_, _, _)
registerAll(a, ds, i) ==
    IF i > Len(ds) \/ a.exited THEN a
    ELSE registerAll(registerDecl(a, ds[i]), ds, i + 1)

\* lines 61-79: one node of the second pass
analyzeDecl(a, d) ==
    IF d.k = "FuncDecl" THEN analyzeFuncDecl(a, d)
    ELSE IF d.k = "VarDecl"
    THEN LET rt == analyzeExpr(a.scopes, d.init)
             dt == stringToType(d.type)
         IN IF d.init.k = "null" THEN a
            ELSE IF ~IsType(rt) THEN error(a, rt)
            ELSE IF dt = "unknown" THEN error(a, "Unknown type for variable")
            ELSE IF rt # dt THEN error(a, "Type mismatch in initialization")
            ELSE a
    ELSE IF IsStmt(d) THEN analyzeStmt(a, d)
    ELSE a

RECURSIVE analyzeAll(_, _, _)
analyzeAll(a, ds, i) ==
    IF i > Len(ds) \/ a.exited THEN a
    ELSE analyzeAll(analyzeDecl(a, ds[i]), ds, i + 1)

\* SemanticAnalyzer::analyze
analyze(a, prog) == analyzeAll(registerAll(a, prog.decls, 1), prog.decls, 1)


-----------------------------------------------------------------------------
(* codegen.cpp: CodeGenerator::generate.  The target program is kept as the  *)
(* statements written into output.cpp, one record per statement:             *)
(*   [kind, dst, op, a1, a2, endl]                                           *)
(* kind names the statement form, endl whether `<< endl` is appended; the    *)
(* C++ declarations (`int x = ..` against `x = ..`) are not kept apart.      *)

CStmt(kind, dst, o, a1, a2, endl) ==
    [kind |-> kind, dst |-> dst, op |-> o, a1 |-> a1, a2 |-> a2, endl |-> endl]

\* lines 18-29: names of top-level variables and of parameters, with their types
RECURSIVE collectParams(_, _, _)
collectParams(m, ps, i) ==
    IF i > Len(ps) THEN m
    ELSE collectParams(MapPut(m, ps[i].name, ps[i].type), ps, i + 1)

RECURSIVE collectFrom(_, _, _)
collectFrom(m, ds, i) ==
    IF i > Len(ds) THEN m
    ELSE collectFrom(IF ds[i].k = "VarDecl" THEN MapPut(m, ds[i].name, ds[i].type)
                     ELSE IF ds[i].k = "FuncDecl" THEN collectParams(m, ds[i].params, 1)
                     ELSE m, ds, i + 1)

collectVarTypes(prog) == collectFrom(EmptyMap, prog.decls, 1)

\* lines 110-117: the FuncDecl named n, Null if there is none
findFuncDecl(prog, n) ==
    LET hits == SelectSeq(prog.decls, LAMBDA d : d.k = "FuncDecl" /\ d.name = n)
    IN IF hits = <<>> THEN Null ELSE hits[1]

IsFuncLabel(t) == t.isLabel /\ StartsWith(t.res, SFuncPrefix)

\* lines 172-181: function name -> index of its func_ label (the last one wins)
RECURSIVE funcLabelFrom(_, _, _)
funcLabelFrom(m, code, i) ==
    IF i > Len(code) THEN m
    ELSE funcLabelFrom(IF IsFuncLabel(code[i])
                       THEN MapPut(m, SubSeq(code[i].res, 6, Len(code[i].res)), i)
                       ELSE m, code, i + 1)

funcLabelIndex(code) == funcLabelFrom(EmptyMap, code, 1)

\* lines 203-216: without an endfunc_ label the range ends after the first
\* return, or before the next func_ label, or with the list
RECURSIVE fallbackEnd(_, _)
fallbackEnd(code, j) ==
    IF j > Len(code) THEN j
    ELSE IF IsFuncLabel(code[j]) THEN j
    ELSE IF code[j].op = "return" THEN j + 1
    ELSE fallbackEnd(code, j + 1)

\* lines 187-218: [start, end) of the function whose func_ label is at index i
funcRange(code, fname, i) ==
    LET start == i + 1
        ends == {j \in start .. Len(code) :
                    code[j].isLabel /\ code[j].res = SEndFuncPrefix \o fname}
    IN [start |-> start,
        end |-> IF ends # {} THEN (CHOOSE j \in ends : \A k \in ends : j <= k) + 1
                ELSE fallbackEnd(code, start)]

funcRanges(code) ==
    LET idx == funcLabelIndex(code)
    IN [n \in DOMAIN idx |-> funcRange(code, n, idx[n])]

\* lines 412-418: the mask of the indices that lie in a function range
inFunction(ranges, k) ==
    \E n \in DOMAIN ranges : k >= ranges[n].start /\ k < ranges[n].end

\* lines 299-372: the statement for one instruction of a function range
\* (<<>> for a func_ label, which is skipped)
lowerInFunction(t) ==
    IF t.isLabel
    THEN IF StartsWith(t.res, SFuncPrefix) THEN <<>>
         ELSE <<CStmt("label", t.res, "", <<>>, <<>>, FALSE)>>
    ELSE CASE t.op = "assign" -> <<CStmt("assign", t.res, "", t.arg1, <<>>, FALSE)>>
           [] t.op = "print" -> <<CStmt("print", <<>>, "", t.arg1, <<>>, FALSE)>>
           [] t.op = "newline" -> <<CStmt("newline", <<>>, "", <<>>, <<>>, TRUE)>>
           [] t.op = "call" -> <<CStmt("call", t.res, "", t.arg1, t.arg2, FALSE)>>
           [] t.op = "return" ->
                <<CStmt("return", <<>>, "", IF t.arg1 = <<>> THEN SZero ELSE t.arg1,
                        <<>>, FALSE)>>
           [] t.op = "goto" -> <<CStmt("goto", t.res, "", <<>>, <<>>, FALSE)>>
           [] t.op = "ifFalse" -> <<CStmt("ifFalse", t.res, "", t.arg1, <<>>, FALSE)>>
           [] OTHER -> <<CStmt("op", t.res, t.op, t.arg1, t.arg2, FALSE)>>

\* lines 444-519: the statement for one top-level instruction, emitted in main
lowerInMain(t) ==
    IF t.isLabel THEN <<CStmt("label", t.res, "", <<>>, <<>>, FALSE)>>
    ELSE CASE t.op = "assign" -> <<CStmt("assign", t.res, "", t.arg1, <<>>, FALSE)>>
           [] t.op = "print" -> <<CStmt("print", <<>>, "", t.arg1, <<>>, TRUE)>>
           [] t.op = "newline" -> <<CStmt("newline", <<>>, "", <<>>, <<>>, TRUE)>>
           [] t.op = "input" -> <<CStmt("input", t.arg1, "", <<>>, <<>>, FALSE)>>
           [] t.op = "call" -> <<CStmt("call", t.res, "", t.arg1, t.arg2, FALSE)>>
           [] t.op = "goto" -> <<CStmt("goto", t.res, "", <<>>, <<>>, FALSE)>>
           [] t.op = "ifFalse" -> <<CStmt("ifFalse", t.res, "", t.arg1, <<>>, FALSE)>>
           [] t.op = "return" ->
                <<CStmt("return", <<>>, "", IF t.arg1 = <<>> THEN SZero ELSE t.arg1,
                        <<>>, FALSE)>>
           [] OTHER -> <<CStmt("op", t.res, t.op, t.arg1, t.arg2, FALSE)>>

ReturnZero == CStmt("return", <<>>, "", SZero, <<>>, FALSE)

\* the statements of code[i .. j - 1], each lowered by lower
RECURSIVE lowerRange(_, _, _, _)
lowerRange(code, i, j, inFunc) ==
    IF i >= j \/ i > Len(code) THEN <<>>
    ELSE (IF inFunc THEN lowerInFunction(code[i]) ELSE lowerInMain(code[i]))
         \o lowerRange(code, i + 1, j, inFunc)

\* lines 11-16
cppTypeFor(t) ==
    CASE t = "int" -> "int"
      [] t = "bool" -> "bool"
      [] t = "string" -> "std::string"
      [] OTHER -> "auto"

\* lines 91-93
boolOps == {"<", ">", "<=", ">=", "==", "!=", "&&", "||", "!"}

\* lines 68-85: what one operand says about the type of a temp
analyzeToken(varTypes, tok) ==
    IF tok = <<>> THEN {}
    ELSE IF isQuotedString(tok) THEN {"string"}
    ELSE IF isBoolLiteral(tok) THEN {"bool"}
    ELSE IF isIntLiteral(tok) THEN {"int"}
    ELSE IF isTemp(tok) THEN {}
    ELSE IF tok \in DOMAIN varTypes
         THEN {varTypes[tok]} \cap {"string", "bool", "int"}
    ELSE {"int"}

\* lines 59-102: the type of a temp, from the instructions of code[startIdx ..
\* endIdx - 1] that mention it
decideTempType(temp, code, startIdx, endIdx, varTypes) ==
    LET uses == {i \in startIdx .. endIdx - 1 :
                    /\ i <= Len(code)
                    /\ temp \in {code[i].res, code[i].arg1, code[i].arg2}}
        seen == UNION {(IF code[i].op \in boolOps THEN {"bool"} ELSE {})
                       \cup analyzeToken(varTypes, code[i].arg1)
                       \cup analyzeToken(varTypes, code[i].arg2) : i \in uses}
    IN IF "string" \in seen THEN "std::string"
       ELSE IF "bool" \in seen THEN "bool"
       ELSE "int"

\* lines 236-245, 404-408: the temps among the operands of the instructions idxs
collectTemps(code, idxs) ==
    {a \in UNION {{code[i].res, code[i].arg1, code[i].arg2} : i \in idxs} : isTemp(a)}

\* the indices of code that a function range covers
RangeIdxs(code, rng) == {k \in rng.start .. rng.end - 1 : k <= Len(code)}

\* lines 258-263, 272-278: the declarations of the temps of a function
tempDecls(code, rng, varTypes) ==
    [tname \in collectTemps(code, RangeIdxs(code, rng)) |->
        decideTempType(tname, code, rng.start, rng.end, varTypes)]

\* lines 394-415: the declarations of the temps of main, each typed from the
\* whole list
mainTemps(code, ranges, varTypes) ==
    [mt \in collectTemps(code, {k \in 1 .. Len(code) : ~inFunction(ranges, k)}) |->
        decideTempType(mt, code, 1, Len(code) + 1, varTypes)]

\* the instructions whose res is written: assign, a call with a destination,
\* and the operations of the last branch (lines 353-377, 497-518)
WritesRes(t, inFunc) ==
    /\ ~t.isLabel
    /\ \/ t.op = "assign"
       \/ t.op = "call" /\ t.res # <<>>
       \/ /\ t.op \notin {"assign", "print", "newline", "call", "return", "goto",
                          "ifFalse"}
          /\ (inFunc \/ t.op # "input")

\* lines 307-308, 451-452: the type written in front of a name at its first
\* assignment
declType(varTypes, dst) ==
    IF dst \in DOMAIN varTypes THEN cppTypeFor(varTypes[dst]) ELSE "int"

\* lines 302-317, 332-340, 359-377 (function) and 448-459, 475-483, 501-518
\* (main): the declarations written while the instructions idxs are lowered,
\* in order
RECURSIVE namedDecls(_, _, _, _, _)
namedDecls(code, i, idxs, declared, varTypes) ==
    IF i > Len(code) THEN <<>>
    ELSE LET t == code[i]
             declares == i \in idxs /\ ~isTemp(t.res) /\ t.res \notin declared
         IN (IF declares
             THEN <<[name |-> t.res, type |-> declType(varTypes, t.res)]>>
             ELSE <<>>)
            \o namedDecls(code, i + 1, idxs,
                          IF declares THEN declared \cup {t.res} ELSE declared,
                          varTypes)

\* lines 246-378: one function definition
emitFunction(code, prog, fname, rng) ==
    LET fdecl == findFuncDecl(prog, fname)
    IN [name |-> fname,
        params |-> IF fdecl.k = "null" THEN <<>>
                   ELSE [i \in 1 .. Len(fdecl.params) |-> fdecl.params[i].name],
        temps |-> tempDecls(code, rng, collectVarTypes(prog)),
        decls |-> namedDecls(code, 1,
                             {k \in RangeIdxs(code, rng) : WritesRes(code[k], TRUE)},
                             IF fdecl.k = "null" THEN {}
                             ELSE {fdecl.params[i].name : i \in 1 .. Len(fdecl.params)},
                             collectVarTypes(prog)),
        body |-> Append(lowerRange(code, rng.start, rng.end, TRUE), ReturnZero)]

\* lines 420-519: the top-level instructions, in order
RECURSIVE lowerTop(_, _, _)
lowerTop(code, ranges, k) ==
    IF k > Len(code) THEN <<>>
    ELSE (IF inFunction(ranges, k) THEN <<>> ELSE lowerInMain(code[k]))
         \o lowerTop(code, ranges, k + 1)

\* lines 396-400: a call or print among the top-level instructions
topLevelHasCallsOrPrints(code, ranges) ==
    \E k \in 1 .. Len(code) :
        ~inFunction(ranges, k) /\ code[k].op \in {"call", "print"}

\* lines 528-537, 549-558: the text written for one argument of the fallback
argText(e) ==
    CASE e.k = "Number" -> e.value
      [] e.k = "String" -> <<"\"">> \o e.value \o <<"\"">>
      [] e.k = "Bool" -> e.value
      [] e.k = "Var" -> e.name
      [] e.k = "Unary" /\ e.op = "-" /\ e.expr.k = "Number" -> <<"-">> \o e.expr.value
      [] OTHER -> <<>>

RECURSIVE argsText(_, _)
argsText(args, i) ==
    IF i > Len(args) THEN <<>>
    ELSE argText(args[i]) \o (IF i + 1 <= Len(args) THEN SArgSep ELSE <<>>)
         \o argsText(args, i + 1)

\* lines 543-569: the operand of the fallback's `cout << .. << endl`
printText(e) ==
    CASE e.k = "FuncCall" -> e.name \o <<"(">> \o argsText(e.args, 1) \o <<")">>
      [] e.k \in {"Number", "Bool", "Var"} -> argText(e)
      [] e.k = "String" -> argText(e)
      [] OTHER -> <<>>

\* lines 524-575: the statement the fallback writes for one top-level node
fallbackNode(d) ==
    CASE d.k = "FuncCallStmt" ->
           <<CStmt("call", <<>>, "", d.name, argsText(d.args, 1), FALSE)>>
      [] d.k = "Print" -> <<CStmt("print", <<>>, "", printText(d.expr), <<>>, TRUE)>>
      [] d.k = "Newline" -> <<CStmt("newline", <<>>, "", <<>>, <<>>, TRUE)>>
      [] d.k = "Input" -> <<CStmt("input", d.name, "", <<>>, <<>>, FALSE)>>
      [] OTHER -> <<>>

RECURSIVE fallbackFrom(_, _)
fallbackFrom(ds, i) ==
    IF i > Len(ds) THEN <<>> ELSE fallbackNode(ds[i]) \o fallbackFrom(ds, i + 1)

\* the function names in the order of their func_ labels
RECURSIVE funcOrder(_, _, _)
funcOrder(idx, code, i) ==
    IF i > Len(code) THEN <<>>
    ELSE (IF IsFuncLabel(code[i]) /\ idx[SubSeq(code[i].res, 6, Len(code[i].res))] = i
          THEN <<SubSeq(code[i].res, 6, Len(code[i].res))>> ELSE <<>>)
         \o funcOrder(idx, code, i + 1)

\* CodeGenerator::generate: the function definitions, the variables main
\* declares with their defaults, and the statements of main
codegen(code, prog) ==
    LET ranges == funcRanges(code)
        names == funcOrder(funcLabelIndex(code), code, 1)
    IN [funcs |-> [i \in 1 .. Len(names) |->
                      emitFunction(code, prog, names[i], ranges[names[i]])],
        varTypes |-> collectVarTypes(prog),
        mainTemps |-> mainTemps(code, ranges, collectVarTypes(prog)),
        mainDecls |-> namedDecls(code, 1,
                                 {k \in 1 .. Len(code) :
                                     ~inFunction(ranges, k) /\ WritesRes(code[k], FALSE)},
                                 DOMAIN collectVarTypes(prog),
                                 collectVarTypes(prog)),
        main |-> lowerTop(code, ranges, 1)
                 \o (IF topLevelHasCallsOrPrints(code, ranges) THEN <<>>
                     ELSE fallbackFrom(prog.decls, 1))
                 \o <<ReturnZero>>]

\* output.cpp has not been written
NotWritten ==
    [funcs |-> <<>>, varTypes |-> EmptyMap, mainTemps |-> EmptyMap,
     mainDecls |-> <<>>, main |-> <<>>]

-----------------------------------------------------------------------------
(* The run of the target program: what the statements CodeGenerator writes   *)
(* do when output.cpp is compiled and run.  A value is [t, v] with t "int"   *)
(* (bool values are kept as 0 and 1, as `cout <<` writes them) or "str".     *)
(* The run is [frames, out, status]; a frame is [fn, pc, env, dst]: the      *)
(* function (0 for main), the next statement, the variables, and the         *)
(* variable of the caller that takes the result.                             *)

MaxSteps == 120

IntVal(n) == [t |-> "int", v |-> n]
StrVal(x) == [t |-> "str", v |-> x]

\* the arguments of `f(a, b, c)`, written as one string with ", " between them
RECURSIVE SplitFrom(_, _, _)
SplitFrom(x, i, cur) ==
    IF i > Len(x) THEN <<cur>>
    ELSE IF i < Len(x) /\ x[i] = "," /\ x[i + 1] = " "
         THEN <<cur>> \o SplitFrom(x, i + 2, <<>>)
    ELSE SplitFrom(x, i + 1, Append(cur, x[i]))

SplitArgs(x) == IF x = <<>> THEN <<>> ELSE SplitFrom(x, 1, <<>>)

\* an operand written by makeExprOperand: a literal, or a variable; a variable
\* that was never assigned holds whatever the build left there
operand(env, a) ==
    IF isIntLiteral(a) THEN IntVal(toInt(a))
    ELSE IF a = STrue THEN IntVal(1)
    ELSE IF a = SFalse THEN IntVal(0)
    ELSE IF isQuotedString(a) THEN StrVal(SubSeq(a, 2, Len(a) - 1))
    ELSE IF a \in DOMAIN env THEN env[a]
    ELSE IntVal(garbage)

\* `dst = a1 op a2;`
binary(o, x, y) ==
    IF x.t = "str" /\ y.t = "str" /\ o = "+" THEN StrVal(x.v \o y.v)
    ELSE IF x.t # "int" \/ y.t # "int" THEN IntVal(garbage)
    ELSE CASE o = "+" -> IntVal(x.v + y.v)
           [] o = "-" -> IntVal(x.v - y.v)
           [] o = "*" -> IntVal(x.v * y.v)
           [] o = "/" -> IntVal(IF y.v = 0 THEN garbage ELSE CDiv(x.v, y.v))
           [] o = "%" -> IntVal(IF y.v = 0 THEN garbage ELSE CMod(x.v, y.v))
           [] o = "<" -> IntVal(B2I(x.v < y.v))
           [] o = ">" -> IntVal(B2I(x.v > y.v))
           [] o = "<=" -> IntVal(B2I(x.v <= y.v))
           [] o = ">=" -> IntVal(B2I(x.v >= y.v))
           [] o = "==" -> IntVal(B2I(x.v = y.v))
           [] o = "!=" -> IntVal(B2I(x.v # y.v))
           [] o = "&&" -> IntVal(B2I(x.v # 0 /\ y.v # 0))
           [] o = "||" -> IntVal(B2I(x.v # 0 \/ y.v # 0))
           [] OTHER -> IntVal(garbage)

\* `dst = op a1;`
unary(o, x) ==
    IF x.t # "int" THEN IntVal(garbage)
    ELSE CASE o = "-" -> IntVal(0 - x.v)
           [] o = "!" -> IntVal(B2I(x.v = 0))
           [] OTHER -> IntVal(garbage)

\* what `cout << x` writes
written(x) == IF x.t = "int" THEN to_string(x.v) ELSE x.v

SNewline == <<"\n">>

\* lines 380-387: main declares every name of varTypes with its default
mainDefaults(varTypes) ==
    [n \in DOMAIN varTypes |->
        IF varTypes[n] \in {"int", "bool"} THEN IntVal(0) ELSE StrVal(<<>>)]

Body(e, fn) == IF fn = 0 THEN e.main ELSE e.funcs[fn].body

\* the index of the statement `L:` in a body, 0 if the body has none
labelAt(body, L) ==
    LET hits == {i \in 1 .. Len(body) : body[i].kind = "label" /\ body[i].dst = L}
    IN IF hits = {} THEN 0 ELSE CHOOSE i \in hits : \A j \in hits : i <= j

\* the index of the function definition named n, 0 if there is none
funcAt(e, n) ==
    LET hits == {i \in 1 .. Len(e.funcs) : e.funcs[i].name = n}
    IN IF hits = {} THEN 0 ELSE CHOOSE i \in hits : TRUE

\* the frame of a call: the parameters hold the arguments
callFrame(e, fi, args, dst) ==
    LET ps == e.funcs[fi].params
    IN [fn |-> fi, pc |-> 1, dst |-> dst,
        env |-> [n \in {ps[i] : i \in 1 .. Len(ps)} |->
                    LET i == CHOOSE j \in 1 .. Len(ps) : ps[j] = n
                    IN IF i <= Len(args) THEN args[i] ELSE IntVal(garbage)]]

\* one statement of the running function
Step(e, st) ==
    LET top == Len(st.frames)
        fr == st.frames[top]
        body == Body(e, fr.fn)
        c == body[fr.pc]
        next == [st EXCEPT !.frames[top].pc = fr.pc + 1]
        jump == LET i == labelAt(body, c.dst)
                IN IF i = 0 THEN [st EXCEPT !.status = "stuck"]
                   ELSE [st EXCEPT !.frames[top].pc = i]
    IN IF fr.pc > Len(body) THEN [st EXCEPT !.status = "stuck"]
       ELSE CASE c.kind = "label" -> next
              [] c.kind = "assign" ->
                   [next EXCEPT !.frames[top].env = MapPut(@, c.dst, operand(fr.env, c.a1))]
              [] c.kind = "op" ->
                   [next EXCEPT !.frames[top].env =
                       MapPut(@, c.dst,
                              IF c.a2 # <<>>
                              THEN binary(c.op, operand(fr.env, c.a1), operand(fr.env, c.a2))
                              ELSE unary(c.op, operand(fr.env, c.a1)))]
              [] c.kind = "print" ->
                   [next EXCEPT !.out = @ \o written(operand(fr.env, c.a1))
                                          \o (IF c.endl THEN SNewline ELSE <<>>)]
              [] c.kind = "newline" -> [next EXCEPT !.out = @ \o SNewline]
              [] c.kind = "input" ->
                   [next EXCEPT !.frames[top].env = MapPut(@, c.dst, IntVal(0))]
              [] c.kind = "goto" -> jump
              [] c.kind = "ifFalse" ->
                   LET x == operand(fr.env, c.a1)
                   IN IF x.t = "int" /\ x.v = 0 THEN jump ELSE next
              [] c.kind = "call" ->
                   LET fi == funcAt(e, c.a1)
                       as == SplitArgs(c.a2)
                       args == [i \in 1 .. Len(as) |-> operand(fr.env, as[i])]
                   IN IF fi = 0 THEN [st EXCEPT !.status = "stuck"]
                      ELSE [st EXCEPT !.frames = Append(@, callFrame(e, fi, args, c.dst))]
              [] c.kind = "return" ->
                   IF top = 1 THEN [st EXCEPT !.status = "done"]
                   ELSE LET x == operand(fr.env, c.a1)
                            back == st.frames[top - 1]
                        IN [st EXCEPT !.frames =
                              Append(SubSeq(st.frames, 1, top - 2),
                                     [back EXCEPT !.pc = back.pc + 1,
                                                  !.env = IF fr.dst = <<>> THEN @
                                                          ELSE MapPut(@, fr.dst, x)])]

RECURSIVE Run(_, _, _)
Run(e, st, fuel) ==
    IF st.status # "run" THEN st
    ELSE IF fuel = 0 THEN [st EXCEPT !.status = "timeout"]
    ELSE Run(e, Step(e, st), fuel - 1)

\* the run of main from its first statement
execute(e) ==
    LET st == Run(e, [frames |-> <<[fn |-> 0, pc |-> 1, dst |-> <<>>,
                                    env |-> mainDefaults(e.varTypes)]>>,
                      out |-> <<>>, status |-> "run"], MaxSteps)
    IN [out |-> st.out, status |-> st.status]

-----------------------------------------------------------------------------
(* interpreter.cpp.  A Value is [t, v] with t "int", "bool" or "str".  The   *)
(* interpreter is [env, funcs, out, status, thrown, hasValue, value, calls]: *)
(* env and funcs as in the class, out what was written to cout, status       *)
(* "run" until an uncaught exception ends the run, thrown/hasValue/value a   *)
(* ReturnException on its way up, calls the calls and loop rounds so far.    *)

Value(t, v) == [t |-> t, v |-> v]
DefaultValue == Value("int", 0)

\* Value::toString
toString(x) ==
    IF x.t = "int" THEN to_string(x.v)
    ELSE IF x.t = "bool" THEN (IF x.v THEN STrue ELSE SFalse)
    ELSE x.v

\* the default of a declared type: int = 0, bool = false, string = ""
TypeDefault(ty) ==
    IF ty = "int" THEN Value("int", 0)
    ELSE IF ty = "bool" THEN Value("bool", FALSE)
    ELSE Value("str", <<>>)

NewInterpreter ==
    [env |-> <<EmptyMap>>, funcs |-> EmptyMap, out |-> <<>>, status |-> "run",
     thrown |-> FALSE, hasValue |-> FALSE, value |-> DefaultValue, calls |-> 0]

\* no call expression has been evaluated
NoCall == [e |-> Null, v |-> DefaultValue]

\* an exception nothing catches (runtime_error, bad_variant_access)
raise(st) == [st EXCEPT !.status = "error"]

\* Interpreter::setVar
setVar(st, n, x) ==
    LET i == lookupFrom(st.env, n, Len(st.env))
    IN [st EXCEPT !.env[IF i # 0 THEN i ELSE Len(st.env)] = MapPut(@, n, x)]

\* env.back()[n] = x
setLocal(st, n, x) == [st EXCEPT !.env[Len(st.env)] = MapPut(@, n, x)]

existsVarInCurrent(st, n) == n \in DOMAIN st.env[Len(st.env)]

RECURSIVE evalExpr(_, _)
RECURSIVE evalArgs(_, _, _, _)
RECURSIVE callFunction(_, _, _)
RECURSIVE execStmt(_, _)
RECURSIVE execStmts(_, _, _)
RECURSIVE execBlock(_, _)
RECURSIVE forLoop(_, _, _, _)
RECURSIVE whileLoop(_, _)

\* lines 151-153: the arguments of a call, from argument i on
evalArgs(st, args, i, vals) ==
    IF i > Len(args) \/ st.status # "run" THEN [st |-> st, v |-> vals]
    ELSE LET r == evalExpr(st, args[i])
         IN evalArgs(r.st, args, i + 1, Append(vals, r.v))

\* the arithmetic, comparison and logical operators of evalExpr
binaryValue(st, o, L, R) ==
    LET ints == L.t = "int" /\ R.t = "int"
        bools == L.t = "bool" /\ R.t = "bool"
        bad == [st |-> raise(st), v |-> DefaultValue]
        ok(x) == [st |-> st, v |-> x]
    IN CASE o = "+" ->
              IF ints THEN ok(Value("int", L.v + R.v))
              ELSE IF L.t = "str" \/ R.t = "str"
                   THEN ok(Value("str", toString(L) \o toString(R)))
              ELSE ok(DefaultValue)
         [] o = "-" -> IF ints THEN ok(Value("int", L.v - R.v)) ELSE bad
         [] o = "*" -> IF ints THEN ok(Value("int", L.v * R.v)) ELSE bad
         [] o = "/" -> IF ints /\ R.v # 0 THEN ok(Value("int", CDiv(L.v, R.v))) ELSE bad
         [] o = "%" -> IF ints /\ R.v # 0 THEN ok(Value("int", CMod(L.v, R.v))) ELSE bad
         [] o = "==" -> ok(Value("bool", toString(L) = toString(R)))
         [] o = "!=" -> ok(Value("bool", toString(L) # toString(R)))
         [] o = "<" -> IF ints THEN ok(Value("bool", L.v < R.v)) ELSE bad
         [] o = ">" -> IF ints THEN ok(Value("bool", L.v > R.v)) ELSE bad
         [] o = "<=" -> IF ints THEN ok(Value("bool", L.v <= R.v)) ELSE bad
         [] o = ">=" -> IF ints THEN ok(Value("bool", L.v >= R.v)) ELSE bad
         [] o = "&&" -> IF bools THEN ok(Value("bool", L.v /\ R.v)) ELSE bad
         [] o = "||" -> IF bools THEN ok(Value("bool", L.v \/ R.v)) ELSE bad
         [] OTHER -> ok(DefaultValue)

\* Interpreter::evalExpr: the interpreter after the evaluation, and the value
evalExpr(st, e) ==
    IF st.status # "run" THEN [st |-> st, v |-> DefaultValue]
    ELSE CASE e.k = "null" -> [st |-> st, v |-> DefaultValue]
           [] e.k = "Number" -> [st |-> st, v |-> Value("int", toInt(e.value))]
           [] e.k = "Bool" -> [st |-> st, v |-> Value("bool", e.value = STrue)]
           [] e.k = "String" -> [st |-> st, v |-> Value("str", e.value)]
           [] e.k = "Var" ->
                LET i == lookupFrom(st.env, e.name, Len(st.env))
                IN IF i = 0 THEN [st |-> raise(st), v |-> DefaultValue]
                   ELSE [st |-> st, v |-> st.env[i][e.name]]
           [] e.k = "FuncCall" ->
                LET a == evalArgs(st, e.args, 1, <<>>)
                IN IF a.st.status # "run" THEN [st |-> a.st, v |-> DefaultValue]
                   ELSE callFunction(a.st, e.name, a.v)
           [] e.k = "Unary" ->
                LET r == evalExpr(st, e.expr)
                IN IF r.st.status # "run" THEN r
                   ELSE IF e.op = "!"
                        THEN (IF r.v.t = "bool" THEN [st |-> r.st, v |-> Value("bool", ~r.v.v)]
                              ELSE [st |-> raise(r.st), v |-> DefaultValue])
                   ELSE IF e.op = "-"
                        THEN (IF r.v.t = "int" THEN [st |-> r.st, v |-> Value("int", 0 - r.v.v)]
                              ELSE [st |-> raise(r.st), v |-> DefaultValue])
                   ELSE [st |-> r.st, v |-> DefaultValue]
           [] e.k = "Binary" ->
                LET l == evalExpr(st, e.left)
                    r == evalExpr(l.st, e.right)
                IN IF r.st.status # "run" THEN r
                   ELSE binaryValue(r.st, e.op, l.v, r.v)
           [] OTHER -> [st |-> st, v |-> DefaultValue]

\* Interpreter::callFunction
callFunction(st, name, args) ==
    IF name \notin DOMAIN st.funcs THEN [st |-> raise(st), v |-> DefaultValue]
    ELSE IF st.calls >= MaxSteps
         THEN [st |-> [st EXCEPT !.status = "timeout"], v |-> DefaultValue]
    ELSE LET f == st.funcs[name]
             s0 == [st EXCEPT !.env = Append(@, EmptyMap), !.calls = @ + 1]
             s1 == [s0 EXCEPT !.env[Len(s0.env)] =
                       [n \in {f.params[i].name : i \in 1 .. Len(f.params)} |->
                           LET i == CHOOSE j \in 1 .. Len(f.params) :
                                       /\ f.params[j].name = n
                                       /\ \A k \in j + 1 .. Len(f.params) :
                                             f.params[k].name # n
                           IN IF i <= Len(args) THEN args[i]
                              ELSE TypeDefault(f.params[i].type)]]
             s2 == IF f.body.k = "null" THEN s1 ELSE execStmts(s1, f.body.stmts, 1)
             popped == [s2 EXCEPT !.env = SubSeq(@, 1, Len(@) - 1), !.thrown = FALSE]
         IN IF s2.status # "run" THEN [st |-> s2, v |-> DefaultValue]
            ELSE [st |-> popped,
                  v |-> IF s2.thrown /\ s2.hasValue THEN s2.value ELSE DefaultValue]

\* a statement loop: the statements from index i on, until an exception
execStmts(st, ss, i) ==
    IF i > Len(ss) \/ st.status # "run" \/ st.thrown THEN st
    ELSE execStmts(execStmt(st, ss[i]), ss, i + 1)

\* Interpreter::execBlock; an exception leaves the function before popScope
execBlock(st, b) ==
    LET s1 == execStmts([st EXCEPT !.env = Append(@, EmptyMap)], b.stmts, 1)
    IN IF s1.status # "run" \/ s1.thrown THEN s1
       ELSE [s1 EXCEPT !.env = SubSeq(@, 1, Len(@) - 1)]

\* lines 223-232: the loop of execFor with its own counter i
forLoop(st, f, i, end) ==
    IF st.status # "run" \/ st.thrown \/ i > end THEN st
    ELSE IF st.calls >= MaxSteps THEN [st EXCEPT !.status = "timeout"]
    ELSE forLoop(execBlock([setVar(st, f.var, Value("int", i)) EXCEPT !.calls = @ + 1],
                           f.block),
                 f, i + 1, end)

\* Interpreter::execFor
execFor(st, f) ==
    LET s0 == IF existsVarInCurrent(st, f.var) THEN st
              ELSE setLocal(st, f.var, Value("int", 0))
        a == evalExpr(s0, f.start)
        b == evalExpr(a.st, f.end)
    IN IF b.st.status # "run" THEN b.st
       ELSE IF a.v.t # "int" \/ b.v.t # "int" THEN raise(b.st)
       ELSE forLoop(b.st, f, a.v.v, b.v.v)

\* Interpreter::execWhile
whileLoop(st, w) ==
    LET c == evalExpr(st, w.cond)
    IN IF c.st.status # "run" THEN c.st
       ELSE IF c.v.t # "bool" THEN raise(c.st)
       ELSE IF ~c.v.v THEN c.st
       ELSE IF c.st.calls >= MaxSteps THEN [c.st EXCEPT !.status = "timeout"]
       ELSE LET s1 == execBlock([c.st EXCEPT !.calls = @ + 1], w.block)
            IN IF s1.status # "run" \/ s1.thrown THEN s1 ELSE whileLoop(s1, w)

\* Interpreter::execIf
execIf(st, s) ==
    LET c == evalExpr(st, s.cond)
    IN IF c.st.status # "run" THEN c.st
       ELSE IF c.v.t # "bool" THEN raise(c.st)
       ELSE IF c.v.v THEN execBlock(c.st, s.then_block)
       ELSE IF s.else_block.k # "null" THEN execBlock(c.st, s.else_block)
       ELSE c.st

\* Interpreter::builtin_input at the end of the input: getline yields ""
builtin_input(st, n) ==
    LET i == lookupFrom(st.env, n, Len(st.env))
    IN IF i = 0 THEN setVar(st, n, Value("str", <<>>))
       ELSE setVar(st, n, TypeDefault(IF st.env[i][n].t = "str" THEN "string"
                                      ELSE st.env[i][n].t))

\* Interpreter::execStmt
execStmt(st, s) ==
    IF st.status # "run" \/ st.thrown THEN st
    ELSE CASE s.k = "VarDecl" ->
                IF s.init.k # "null"
                THEN LET r == evalExpr(st, s.init)
                     IN IF r.st.status # "run" THEN r.st
                        ELSE setLocal(r.st, s.name, r.v)
                ELSE setLocal(st, s.name, TypeDefault(s.type))
           [] s.k = "Assign" ->
                LET r == evalExpr(st, s.value)
                IN IF r.st.status # "run" THEN r.st ELSE setVar(r.st, s.name, r.v)
           [] s.k = "Print" ->
                LET r == evalExpr(st, s.expr)
                IN IF r.st.status # "run" THEN r.st
                   ELSE [r.st EXCEPT !.out = @ \o toString(r.v)]
           [] s.k = "Input" -> builtin_input(st, s.name)
           [] s.k = "Newline" -> [st EXCEPT !.out = @ \o SNewline]
           [] s.k = "Return" ->
                IF s.value.k # "null"
                THEN LET r == evalExpr(st, s.value)
                     IN IF r.st.status # "run" THEN r.st
                        ELSE [r.st EXCEPT !.thrown = TRUE, !.hasValue = TRUE, !.value = r.v]
                ELSE [st EXCEPT !.thrown = TRUE, !.hasValue = FALSE,
                                !.value = DefaultValue]
           [] s.k = "For" -> execFor(st, s)
           [] s.k = "While" -> whileLoop(st, s)
           [] s.k = "If" -> execIf(st, s)
           [] s.k = "Block" -> execBlock(st, s)
           [] OTHER -> st

\* Interpreter::loadProgram, from declaration i on
RECURSIVE loadFrom(_, _, _)
loadFrom(st, ds, i) ==
    IF i > Len(ds) \/ st.status # "run" THEN st
    ELSE IF ds[i].k = "FuncDecl"
         THEN loadFrom([st EXCEPT !.funcs = MapPut(@, ds[i].name, ds[i])], ds, i + 1)
    ELSE IF ds[i].k = "VarDecl"
         THEN IF ds[i].init.k # "null"
              THEN LET r == evalExpr(st, ds[i].init)
                   IN loadFrom(IF r.st.status # "run" THEN r.st
                               ELSE [r.st EXCEPT !.env[1] = MapPut(@, ds[i].name, r.v)],
                               ds, i + 1)
              ELSE loadFrom([st EXCEPT !.env[1] =
                                MapPut(@, ds[i].name, TypeDefault(ds[i].type))], ds, i + 1)
    ELSE loadFrom(st, ds, i + 1)

loadProgram(st, prog) == loadFrom([st EXCEPT !.funcs = EmptyMap], prog.decls, 1)

\* lines 88-92: the top-level nodes that are statements, from node i on; a
\* ReturnException that reaches run is not caught
RECURSIVE runFrom(_, _, _)
runFrom(st, ds, i) ==
    IF st.status # "run" THEN st
    ELSE IF st.thrown THEN raise(st)
    ELSE IF i > Len(ds) THEN st
    ELSE runFrom(IF IsStmt(ds[i]) THEN execStmt(st, ds[i]) ELSE st, ds, i + 1)

\* Interpreter::run on a new interpreter
run(prog) ==
    LET st == runFrom(loadProgram(NewInterpreter, prog), prog.decls, 1)
    IN [out |-> st.out, status |-> IF st.status = "run" THEN "done" ELSE st.status]

-----------------------------------------------------------------------------
(* optimizer.cpp lines 34-51: Optimizer::optimize, one action per step of    *)
(* its loop.  stage: "opt_loop" is the while test, "opt_cf" .. "opt_dce"     *)
(* the four calls of the body, "opt_done" the return.                        *)

MaxIterations == 10

\* `code`, the list the running call of optimize was handed
OptInput == IF round = 1 THEN tac ELSE first

OptUnchanged == UNCHANGED <<program, sa, tac, emitted, runs, garbage, lexer, parser, interp, node, lastCall>>

\* a while test without the cap on iterations
LoopTestUncapped ==
    /\ stage = "opt_loop"
    /\ IF changed
       THEN /\ changed' = FALSE
            /\ iterations' = iterations + 1
            /\ stage' = "opt_cf"
       ELSE /\ stage' = "opt_done"
            /\ UNCHANGED <<changed, iterations>>
    /\ UNCHANGED <<out, first, round>>
    /\ OptUnchanged

LoopTest ==
    /\ stage = "opt_loop"
    /\ IF changed /\ iterations < MaxIterations
       THEN /\ changed' = FALSE
            /\ iterations' = iterations + 1
            /\ stage' = "opt_cf"
       ELSE /\ stage' = "opt_done"
            /\ UNCHANGED <<changed, iterations>>
    /\ UNCHANGED <<out, first, round>>
    /\ OptUnchanged

ConstantFold ==
    /\ stage = "opt_cf"
    /\ LET r == constantFold(out)
       IN /\ out' = r.code
          /\ changed' = (r.changed \/ changed)
    /\ stage' = "opt_sr"
    /\ UNCHANGED <<iterations, first, round>>
    /\ OptUnchanged

StrengthReduce ==
    /\ stage = "opt_sr"
    /\ LET r == strengthReduce(out)
       IN /\ out' = r.code
          /\ changed' = (r.changed \/ changed)
    /\ stage' = "opt_cp"
    /\ UNCHANGED <<iterations, first, round>>
    /\ OptUnchanged

CopyPropagate ==
    /\ stage = "opt_cp"
    /\ LET r == copyPropagate(out)
       IN /\ out' = r.code
          /\ changed' = (r.changed \/ changed)
    /\ stage' = "opt_dce"
    /\ UNCHANGED <<iterations, first, round>>
    /\ OptUnchanged

DeadCodeElim ==
    /\ stage = "opt_dce"
    /\ LET r == deadCodeElim(out)
       IN /\ out' = r.code
          /\ changed' = (r.changed \/ changed)
    /\ stage' = "opt_loop"
    /\ UNCHANGED <<iterations, first, round>>
    /\ OptUnchanged

\* a second call, optimize(optimize(code)): lines 36-40 on the first result
Reoptimize ==
    /\ stage = "opt_done"
    /\ round = 1
    /\ first' = out
    /\ round' = 2
    /\ changed' = TRUE
    /\ iterations' = 0
    /\ stage' = "opt_loop"
    /\ UNCHANGED out
    /\ OptUnchanged

-----------------------------------------------------------------------------
(* Inputs of the optimizer *)

MaxDepth == 11
MaxTacLen == 3

NX == <<"x">>
NF == <<"f">>
T1 == <<"t", "1">>
T2 == <<"t", "2">>
T3 == <<"t", "3">>
L1 == <<"L", "1">>
Num(n) == NumberExpr(to_string(n))

\* 1 + 1 + ... + 1 with n operators, as Parser::add builds it (left-associative)
RECURSIVE ChainExpr(_)
ChainExpr(n) ==
    IF n = 0 THEN NumberExpr(SOne)
    ELSE BinaryExpr("+", ChainExpr(n - 1), NumberExpr(SOne))

\* int x = 1 + 1 + ... + 1;
ChainProgram(n) == Program(<<VarDeclStmt("int", NX, ChainExpr(n))>>)

InstrPool ==
    { Instr("+", <<"2">>, <<"3">>, T1),
      Instr("*", T1, <<"2">>, T2),
      Instr("<", NX, T1, T2),
      Instr("assign", T2, <<>>, NX),
      Instr("call", NF, T1 \o SArgSep \o T2, T3),
      Instr("print", T3, <<>>, <<>>),
      Instr("ifFalse", T2, <<>>, L1),
      Instr("goto", <<>>, <<>>, L1),
      Instr("return", T1, <<>>, <<>>),
      Instr("input", NX, <<>>, <<>>),
      Instr("/", <<"4">>, <<"0">>, T1),
      Instr("%", <<"4">>, <<"0">>, T2),
      Label(L1) }

TacLists == UNION {[1 .. n -> InstrPool] : n \in 0 .. MaxTacLen}

\* initializers built from integer literals and + - *
LiteralInits ==
    {ChainExpr(n) : n \in 1 .. MaxDepth}
    \cup { BinaryExpr("+", Num(2), BinaryExpr("*", Num(3), Num(4))),     \* 2 + 3 * 4
           BinaryExpr("*", BinaryExpr("-", Num(1), Num(2)), Num(2)),     \* (1 - 2) * 2
           BinaryExpr("-", BinaryExpr("*", Num(2), Num(3)),
                           BinaryExpr("*", Num(2), Num(2))),             \* 2 * 3 - 2 * 2
           BinaryExpr("*", Num(2), BinaryExpr("+", Num(1), Num(1))),     \* 2 * (1 + 1)
           BinaryExpr("*", BinaryExpr("+", Num(1), Num(1)), Num(3)),     \* (1 + 1) * 3
           BinaryExpr("+", Num(2), BinaryExpr("-", Num(1), Num(2))) }    \* 2 + (1 - 2)

\* int x = <initializer>;
\* bool b = 1 < 2;
CompareProgram ==
    Program(<<VarDeclStmt("bool", <<"b">>, BinaryExpr("<", Num(1), Num(2)))>>)

LiteralPrograms == {Program(<<VarDeclStmt("int", NX, e)>>) : e \in LiteralInits}

OptInputs == TacLists \cup {generate(p) : p \in LiteralPrograms}

\* nothing has been run yet
NotRun == [out |-> <<>>, status |-> "none"]
NoRuns == [raw |-> NotRun, opt |-> NotRun, interp |-> NotRun]

NoProgram == Program(<<>>)

InitOpt ==
    /\ program \in {NoProgram, CompareProgram} \cup LiteralPrograms
    /\ tac \in (IF program = NoProgram THEN TacLists ELSE {generate(program)})
    /\ out = tac
    /\ changed = TRUE
    /\ iterations = 0
    /\ stage = "opt_loop"
    /\ first = <<>>
    /\ round = 1
    /\ sa = NewAnalyzer
    /\ emitted = NotWritten
    /\ runs = NoRuns
    /\ garbage = 0
    /\ lexer = NoLexer
    /\ parser = NoParser
    /\ interp = NewInterpreter
    /\ node = 1
    /\ lastCall = NoCall

NextOpt ==
    \/ LoopTest
    \/ ConstantFold
    \/ StrengthReduce
    \/ CopyPropagate
    \/ DeadCodeElim
    \/ Reoptimize

SpecOpt == InitOpt /\ [][NextOpt]_vars

\* optimize called on one of the lists of TacLists
InitFair == InitOpt /\ program = NoProgram

\* optimize is straight-line code around its loop: a call that has started a
\* step goes on to the next one
FairSpecOpt == InitFair /\ [][NextOpt]_vars /\ WF_vars(NextOpt)

-----------------------------------------------------------------------------
(* main.cpp: the compiler run on one parsed program.  stage: "parsed" after  *)
(* Parser::parse, "fatal" after exit(1), "sema_ok" after analyze returned,   *)
(* "irgen" after generate, then the stages of optimize, "written" after      *)
(* output.cpp was written.                                                   *)

\* main.cpp lines 44-46
Analyze ==
    /\ stage = "parsed"
    /\ sa' = analyze(NewAnalyzer, program)
    /\ stage' = IF sa'.exited THEN "fatal" ELSE "sema_ok"
    /\ UNCHANGED <<program, tac, out, changed, iterations, first, round,
                   emitted, runs, garbage, lexer, parser, interp, node, lastCall>>

\* main.cpp lines 51-57
Generate ==
    /\ stage = "sema_ok"
    /\ tac' = generate(program)
    /\ stage' = "irgen"
    /\ UNCHANGED <<program, sa, out, changed, iterations, first, round,
                   emitted, runs, garbage, lexer, parser, interp, node, lastCall>>

\* main.cpp line 63 and optimizer.cpp lines 36-40: the call of optimize
OptimizeEnter ==
    /\ stage = "irgen"
    /\ out' = tac
    /\ changed' = TRUE
    /\ iterations' = 0
    /\ stage' = "opt_loop"
    /\ UNCHANGED <<program, sa, tac, first, round, emitted, runs, garbage,
                   lexer, parser, interp, node, lastCall>>

\* main.cpp lines 71-81: generate the target source and write output.cpp
Codegen ==
    /\ stage = "opt_done"
    /\ round = 1
    /\ emitted' = codegen(out, program)
    /\ stage' = "written"
    /\ UNCHANGED <<program, sa, tac, out, changed, iterations, first, round,
                   runs, garbage, lexer, parser, interp, node, lastCall>>

RunUnchanged ==
    UNCHANGED <<program, stage, sa, tac, out, changed, iterations, first, round,
                emitted, garbage, lexer, parser, interp, node, lastCall>>

\* output.cpp, compiled and run (main.cpp line 79)
RunOptimized ==
    /\ stage = "written"
    /\ runs.opt = NotRun
    /\ runs' = [runs EXCEPT !.opt = execute(emitted)]
    /\ RunUnchanged

\* the target program generated from the TAC before optimization, run
RunUnoptimized ==
    /\ stage = "written"
    /\ runs.raw = NotRun
    /\ runs' = [runs EXCEPT !.raw = execute(codegen(tac, program))]
    /\ RunUnchanged

\* Interpreter::run on the same AST
Interpret ==
    /\ stage = "written"
    /\ runs.interp = NotRun
    /\ runs' = [runs EXCEPT !.interp = run(program)]
    /\ RunUnchanged

-----------------------------------------------------------------------------
(* Programs handed to the compiler *)

MaxStmts == 2

NA == <<"a">>
NB == <<"b">>
NI == <<"i">>
NY == <<"y">>
NG == <<"g">>
NT9 == <<"t", "9">>
NFoo == <<"f", "o", "o">>

\* func f(int a, int b) { print a; return a + b; }
FuncF ==
    FuncDecl(NF, <<FuncParam("int", NA), FuncParam("int", NB)>>,
             BlockStmt(<<PrintStmt(VarExpr(NA)),
                         ReturnStmt(BinaryExpr("+", VarExpr(NA), VarExpr(NB)))>>))

NewlineBlock == BlockStmt(<<NewlineStmt>>)

StmtPool ==
    { VarDeclStmt("int", NX, Num(3)),                              \* int x = 3;
      PrintStmt(VarExpr(NX)),                                      \* print x;
      NewlineStmt,                                                 \* newline;
      ForStmt(NI, Num(1), Num(3),                                  \* for i = 1 to 3 {
              BlockStmt(<<PrintStmt(VarExpr(NI)),                  \*   print i;
                          AssignStmt(NI, BinaryExpr("+", VarExpr(NI), Num(1)))>>)),
                                                                   \*   i = i + 1; }
      PrintStmt(VarExpr(NI)),                                      \* print i;
      BlockStmt(<<VarDeclStmt("int", NX, Num(5)),                  \* { int x = 5;
                  PrintStmt(VarExpr(NX))>>),                       \*   print x; }
      PrintStmt(FuncCallExpr(NF,                                   \* print f(x + 1, x + 2);
          <<BinaryExpr("+", VarExpr(NX), Num(1)),
            BinaryExpr("+", VarExpr(NX), Num(2))>>)),
      VarDeclStmt("int", NY, FuncCallExpr(NF, <<Num(1), Num(2)>>)),  \* int y = f(1, 2);
      VarDeclStmt("bool", NB, VarExpr(NX)),                        \* bool b = x;
      FuncCallStmt(NFoo, <<Num(1), Num(2)>>),                      \* foo(1, 2);
      FuncCallStmt(NF, <<BoolExpr(STrue)>>),                       \* f(true);
      IfStmt(Num(1), NewlineBlock, Null) }                         \* if (1) { newline; }

\* statements of a function body
BodyPool ==
    { ReturnStmt(Num(1)),                                          \* return 1;
      ReturnStmt(BoolExpr(STrue)),                                 \* return true;
      ReturnStmt(Null),                                            \* return;
      VarDeclStmt("int", NG, Num(1)),                              \* int g = 1;
      IfStmt(Num(1), NewlineBlock, Null),                          \* if (1) { newline; }
      WhileStmt(Num(0), NewlineBlock),                             \* while (0) { newline; }
      ForStmt(NI, BoolExpr(STrue), Num(2), NewlineBlock),          \* for i = true to 2 {..}
      IfStmt(BoolExpr(STrue), BlockStmt(<<ReturnStmt(Num(2))>>), Null) }
                                                                   \* if (true) { return 2; }

SeqsUpTo(S, n) == UNION {[1 .. m -> S] : m \in 1 .. n}

\* int x = 1; { int x = 5; } print x;
ShadowProgram ==
    Program(<<VarDeclStmt("int", NX, Num(1)),
              BlockStmt(<<VarDeclStmt("int", NX, Num(5))>>),
              PrintStmt(VarExpr(NX))>>)

\* int t9 = 1; if (t9 > 5) { t9 = 2; } print t9;
T9Program ==
    Program(<<VarDeclStmt("int", NT9, Num(1)),
              IfStmt(BinaryExpr(">", VarExpr(NT9), Num(5)),
                     BlockStmt(<<AssignStmt(NT9, Num(2))>>), Null),
              PrintStmt(VarExpr(NT9))>>)

\* func f(int a, int b) {..}  func f(int a, int b) {..}  newline;
DupFuncs == Program(<<FuncF, FuncF, NewlineStmt>>)

\* func f(int f) { return 1; }  newline;
SelfNamedParam ==
    Program(<<FuncDecl(NF, <<FuncParam("int", NF)>>, BlockStmt(<<ReturnStmt(Num(1))>>)),
              NewlineStmt>>)

\* print g();  func g() { return 1; }  newline;  func f(int a, int b) {..}
TwoFuncs ==
    Program(<<PrintStmt(FuncCallExpr(NG, <<>>)),
              FuncDecl(NG, <<>>, BlockStmt(<<ReturnStmt(Num(1))>>)),
              NewlineStmt,
              FuncF>>)

\* int x = 3;  input x;  { input x; }  print x;
InputProgram ==
    Program(<<VarDeclStmt("int", NX, Num(3)),
              InputStmt(NX),
              BlockStmt(<<InputStmt(NX)>>),
              PrintStmt(VarExpr(NX))>>)

NS == <<"s">>
NCv == <<"c">>
SQuotedA == <<"\"", "a", "\"">>

\* func g() { string s = "a"; bool c = true; int y = 2; print s; return y; }
\* { bool c = true; string s = "a"; print c; }  print g();
LocalsProgram ==
    Program(<<FuncDecl(NG, <<>>,
                       BlockStmt(<<VarDeclStmt("string", NS, StringExpr(<<"a">>)),
                                   VarDeclStmt("bool", NCv, BoolExpr(STrue)),
                                   VarDeclStmt("int", NY, Num(2)),
                                   PrintStmt(VarExpr(NS)),
                                   ReturnStmt(VarExpr(NY))>>)),
              BlockStmt(<<VarDeclStmt("bool", NCv, BoolExpr(STrue)),
                          VarDeclStmt("string", NS, StringExpr(<<"a">>)),
                          PrintStmt(VarExpr(NCv))>>),
              PrintStmt(FuncCallExpr(NG, <<>>))>>)

NT1x == <<"t", "1", "x">>

\* int t1x = 1; print t1x;
T1xProgram ==
    Program(<<VarDeclStmt("int", NT1x, Num(1)), PrintStmt(VarExpr(NT1x))>>)

\* for i = 1 to 3 { print i; }
PrintLoop == ForStmt(NI, Num(1), Num(3), BlockStmt(<<PrintStmt(VarExpr(NI))>>))

\* for i = 1 to 3 { print i; }  newline;
ForTopProgram == Program(<<PrintLoop, NewlineStmt>>)

\* func g() { for i = 1 to 3 { print i; } }  newline;
ForFuncProgram == Program(<<FuncDecl(NG, <<>>, BlockStmt(<<PrintLoop>>)), NewlineStmt>>)

\* int x = 7;  string s = "a";  print x + 1 < 5;  print s == "a";
TempsProgram ==
    Program(<<VarDeclStmt("int", NX, Num(7)),
              VarDeclStmt("string", NS, StringExpr(<<"a">>)),
              PrintStmt(BinaryExpr("<", BinaryExpr("+", VarExpr(NX), Num(1)), Num(5))),
              PrintStmt(BinaryExpr("==", VarExpr(NS), StringExpr(<<"a">>)))>>)

Programs ==
    {Program(<<FuncF>> \o ss) : ss \in SeqsUpTo(StmtPool, MaxStmts)}
    \cup {Program(<<FuncDecl(NG, <<>>, BlockStmt(ss)), NewlineStmt>>) :
             ss \in SeqsUpTo(BodyPool, MaxStmts)}
    \cup {ShadowProgram, T9Program, SelfNamedParam, TwoFuncs, DupFuncs, InputProgram,
          LocalsProgram, T1xProgram, ForTopProgram, ForFuncProgram, TempsProgram}

\* what a variable that was never assigned may hold
Garbage == {0, 7}

Init ==
    /\ program \in Programs
    /\ stage = "parsed"
    /\ sa = NewAnalyzer
    /\ tac = <<>>
    /\ out = <<>>
    /\ changed = FALSE
    /\ iterations = 0
    /\ first = <<>>
    /\ round = 1
    /\ emitted = NotWritten
    /\ runs = NoRuns
    /\ garbage \in Garbage
    /\ lexer = NoLexer
    /\ parser = NoParser
    /\ interp = NewInterpreter
    /\ node = 1
    /\ lastCall = NoCall

Next ==
    \/ Analyze
    \/ Generate
    \/ OptimizeEnter
    \/ LoopTest
    \/ ConstantFold
    \/ StrengthReduce
    \/ CopyPropagate
    \/ DeadCodeElim
    \/ Codegen
    \/ RunOptimized
    \/ RunUnoptimized
    \/ Interpret

Spec == Init /\ [][Next]_vars

-----------------------------------------------------------------------------
(* Source texts handed to the lexer *)

MaxSrcLen == 5

SrcChars == {"/", "*", "\n", "\"", "a", "="}

Sources == UNION {[1 .. n -> SrcChars] : n \in 0 .. MaxSrcLen}

\* the variables of the stages that are not running
Idle ==
    /\ program = NoProgram
    /\ sa = NewAnalyzer
    /\ tac = <<>>
    /\ out = <<>>
    /\ changed = FALSE
    /\ iterations = 0
    /\ first = <<>>
    /\ round = 1
    /\ emitted = NotWritten
    /\ runs = NoRuns
    /\ garbage = 0

\* main.cpp: Lexer lexer(source), before tokenize
InitLex ==
    /\ \E src \in Sources : lexer = Lexer(src)
    /\ parser = NoParser
    /\ interp = NewInterpreter
    /\ node = 1
    /\ lastCall = NoCall
    /\ stage = "lex"
    /\ Idle

NextLex ==
    \/ Scan
    \/ Finish

SpecLex == InitLex /\ [][NextLex]_vars

-----------------------------------------------------------------------------
(* Token lists handed to Parser::expr *)

MaxTokens == 5

NC == <<"c">>

TokenPool ==
    { Token("ID", NA, 1), Token("ID", NB, 1), Token("ID", NC, 1),
      Token("OR", "||", 1), Token("AND", "&&", 1), Token("EQ", "==", 1),
      Token("LT", "<", 1), Token("PLUS", "+", 1), Token("MINUS", "-", 1),
      Token("MUL", "*", 1), Token("NOT", "!", 1) }

EndOfFile == Token("END_OF_FILE", "EOF", 1)

\* what tokenize returns: tokens, then END_OF_FILE
TokenLists == {ts \o <<EndOfFile>> : ts \in SeqsUpTo(TokenPool, MaxTokens)}

\* Parser parser(tokens), current at the first token of an expression
InitParse ==
    /\ \E ts \in TokenLists : parser = Parser(ts)
    /\ lexer = NoLexer
    /\ interp = NewInterpreter
    /\ node = 1
    /\ lastCall = NoCall
    /\ stage = "parse"
    /\ Idle

NextParse == ParseExpr

SpecParse == InitParse /\ [][NextParse]_vars

-----------------------------------------------------------------------------
(* interpreter.cpp: Interpreter::run, one action per node of p->decls, and   *)
(* the evaluation of a call expression.  stage: "interp" between two nodes   *)
(* of the program, "in_block" inside a block of the caller, behind its       *)
(* declarations, "called" when evalExpr has returned from the call.          *)

MaxTop == 2

NZ == <<"z">>

Gt0(n) == BinaryExpr(">", VarExpr(n), Num(0))

\* func g() { return z; }
FuncG == FuncDecl(NG, <<>>, BlockStmt(<<ReturnStmt(VarExpr(NZ))>>))

\* func f(int a) BODY
FuncA(body) == FuncDecl(NF, <<FuncParam("int", NA)>>, BlockStmt(body))

FuncBodies ==
    { <<ReturnStmt(VarExpr(NA))>>,                                 \* return a;
      <<IfStmt(Gt0(NA), BlockStmt(<<ReturnStmt(VarExpr(NA))>>), Null),
        ReturnStmt(Num(0))>>,                          \* if (a > 0) { return a; } return 0;
      <<WhileStmt(Gt0(NA), BlockStmt(<<ReturnStmt(VarExpr(NA))>>)),
        ReturnStmt(Num(0))>>,                          \* while (a > 0) { return a; } return 0;
      <<VarDeclStmt("int", NI, Num(0)),                \* int i = 0;
        ForStmt(NI, Num(1), VarExpr(NA), BlockStmt(<<ReturnStmt(VarExpr(NI))>>)),
        ReturnStmt(Num(0))>>,                          \* for i = 1 to a { return i; } return 0;
      <<BlockStmt(<<BlockStmt(<<ReturnStmt(VarExpr(NA))>>)>>),
        ReturnStmt(Num(0))>>,                          \* { { return a; } } return 0;
      <<VarDeclStmt("int", NB, VarExpr(NA)),
        AssignStmt(NX, VarExpr(NB))>> }                \* int b = a; x = b;

CallF(n) == FuncCallExpr(NF, <<Num(n)>>)
CallG == FuncCallExpr(NG, <<>>)

\* the call expressions evalExpr is handed
CallExprs == {CallF(0), CallF(1), CallF(2), CallG}

TopPool ==
    { PrintStmt(CallF(1)),                                         \* print f(1);
      PrintStmt(CallF(0)),                                         \* print f(0);
      PrintStmt(CallG),                                            \* print g();
      PrintStmt(VarExpr(NX)),                                      \* print x;
      BlockStmt(<<VarDeclStmt("int", NZ, Num(5)),                  \* { int z = 5;
                  PrintStmt(CallG)>>) }                            \*   print g(); }

\* the declarations a block of the caller has executed when it reaches a call
BlockDecls == {<<>>, <<VarDeclStmt("int", NZ, Num(5))>>, <<VarDeclStmt("int", NA, Num(7))>>}

\* int x = 3;  int z = 1;  func g() {..}  func f(int a) {..}  and statements
InterpPrograms ==
    { p \in { Program(<<VarDeclStmt("int", NX, Num(3)), VarDeclStmt("int", NZ, Num(1)),
                        FuncG, FuncA(body)>> \o ss) :
                 body \in FuncBodies, ss \in SeqsUpTo(TopPool, MaxTop) } :
        ~analyze(NewAnalyzer, p).exited }

InterpUnchanged ==
    UNCHANGED <<program, sa, tac, out, changed, iterations, first, round,
                emitted, runs, garbage, lexer, parser>>

\* lines 88-92: run executes the next node; a ReturnException that reaches run
\* is not caught
RunNode ==
    /\ stage = "interp"
    /\ interp.status = "run"
    /\ node <= Len(program.decls)
    /\ LET uncaught(s) == IF s.thrown THEN raise(s) ELSE s
           d == program.decls[node]
       IN interp' = uncaught(IF IsStmt(d) THEN execStmt(interp, d) ELSE interp)
    /\ node' = node + 1
    /\ UNCHANGED <<stage, lastCall>>
    /\ InterpUnchanged

\* lines 211-213: execBlock has pushed a scope and executed the declarations
\* that stand before a statement with a call
EnterBlock ==
    /\ stage = "interp"
    /\ interp.status = "run"
    /\ \E ds \in BlockDecls :
          interp' = execStmts([interp EXCEPT !.env = Append(@, EmptyMap)], ds, 1)
    /\ stage' = "in_block"
    /\ UNCHANGED <<node, lastCall>>
    /\ InterpUnchanged

\* lines 167-171: evalExpr on a call expression, until callFunction has returned
EvalCall ==
    /\ stage \in {"interp", "in_block"}
    /\ interp.status = "run"
    /\ \E e \in CallExprs :
          LET done(r) == /\ interp' = r.st
                         /\ lastCall' = [e |-> e, v |-> r.v]
          IN done(evalExpr(interp, e))
    /\ stage' = "called"
    /\ UNCHANGED node
    /\ InterpUnchanged

\* Interpreter interp; interp.run(program): after loadProgram
InitInterp ==
    /\ program \in InterpPrograms
    /\ interp = loadProgram(NewInterpreter, program)
    /\ node = 1
    /\ lastCall = NoCall
    /\ stage = "interp"
    /\ sa = NewAnalyzer
    /\ tac = <<>>
    /\ out = <<>>
    /\ changed = FALSE
    /\ iterations = 0
    /\ first = <<>>
    /\ round = 1
    /\ emitted = NotWritten
    /\ runs = NoRuns
    /\ garbage = 0
    /\ lexer = NoLexer
    /\ parser = NoParser

NextInterp ==
    \/ RunNode
    \/ EnterBlock
    \/ EvalCall

SpecInterp == InitInterp /\ [][NextInterp]_vars

-----------------------------------------------------------------------------
(* Claims about the optimizer, checked under SpecOpt *)

ImpureOps == {"call", "print", "input", "return", "goto", "ifFalse"}

\* the labels and side-effect instructions of a list, each as (op, result, isLabel)
SideEffects(code) ==
    LET kept == SelectSeq(code, LAMBDA t : t.isLabel \/ t.op \in ImpureOps)
    IN [i \in 1 .. Len(kept) |->
           [op |-> kept[i].op, res |-> kept[i].res, isLabel |-> kept[i].isLabel]]

\* the label instructions of a list
Labels(code) == SelectSeq(code, LAMBDA t : t.isLabel)

\* every instruction of a list as (result, isLabel): what no pass rewrites
Slots(code) == [i \in 1 .. Len(code) |-> <<code[i].res, code[i].isLabel>>]

\* a is b with some elements deleted
RECURSIVE IsSubseq(_, _)
IsSubseq(a, b) ==
    IF a = <<>> THEN TRUE
    ELSE IF b = <<>> THEN FALSE
    ELSE IF Head(a) = Head(b) THEN IsSubseq(Tail(a), Tail(b))
    ELSE IsSubseq(a, Tail(b))

\* C3: optimize(optimize(X)) = optimize(X), instruction by instruction, for
\* every TAC list X, whatever the nesting depth of its constant expressions.
C3_Idempotent ==
    (stage = "opt_done" /\ round = 2) => out = first

\* C9: no pass of optimize (in particular no call of deadCodeElim) removes a
\* label or a call, print, input, return, goto or ifFalse instruction: after
\* every pass the labels and side-effect instructions of the working list are
\* those of the input, in the same order.
C9_SideEffectsKept ==
    stage \in {"opt_loop", "opt_cf", "opt_sr", "opt_cp", "opt_dce", "opt_done"}
        => SideEffects(out) = SideEffects(OptInput)

\* C9 witness: optimize has returned a list from which deadCodeElim deleted
\* instructions and which still holds a call whose temp result nothing uses.
C9_Witness ==
    /\ stage = "opt_done"
    /\ Len(out) < Len(OptInput)
    /\ \E i \in 1 .. Len(out) :
          out[i].op = "call" /\ isTemp(out[i].res) /\ out[i].res \notin UsedTemps(out)

\* C10: optimize keeps the label structure and the order: the label sequence
\* of the working list equals that of the input, and the instructions that
\* survive stand in the order they had in the input.
C10_OrderKept ==
    stage \in {"opt_loop", "opt_cf", "opt_sr", "opt_cp", "opt_dce", "opt_done"}
        => /\ Labels(out) = Labels(OptInput)
           /\ IsSubseq(Slots(out), Slots(OptInput))

\* C10 witness: optimize has returned a shorter list that still holds a label
\* and an instruction after it.
C10_Witness ==
    /\ stage = "opt_done"
    /\ Len(out) < Len(OptInput)
    /\ \E i \in 1 .. Len(out) - 1 : out[i].isLabel /\ ~out[i + 1].isLabel

-----------------------------------------------------------------------------
(* Claims about the semantic analyzer, checked under Spec *)

\* analyze() has returned: the run is past semantic analysis
Analyzed == stage \notin {"parsed", "fatal"}

\* the function declarations of the program
FuncDecls == SelectSeq(program.decls, LAMBDA d : d.k = "FuncDecl")

\* the scopes a statement standing directly in the body of f is analyzed in
BodyScopes(f) ==
    <<sa.scopes[1],
      [n \in {f.params[i].name : i \in 1 .. Len(f.params)} |->
          VarSymbol(n, stringToType((CHOOSE i \in 1 .. Len(f.params) :
                                        f.params[i].name = n).type))]>>

\* C5: after successful analysis no function symbol of the global scope is
\* left with return type unknown (it holds the type of the function's valued
\* returns, or void), also when a parameter or a local variable of the
\* function has the function's name.
C5_ReturnTypeInferred ==
    Analyzed =>
        \A n \in DOMAIN sa.scopes[1] :
            sa.scopes[1][n].isFunction => sa.scopes[1][n].returnType # "unknown"

\* a call NAME(args) names a declared function and passes arguments of the
\* parameters' number and types
CallChecked(name, args) ==
    /\ name \in DOMAIN sa.scopes[1]
    /\ sa.scopes[1][name].isFunction
    /\ Len(sa.scopes[1][name].paramTypes) = Len(args)
    /\ \A i \in 1 .. Len(args) :
          analyzeExpr(sa.scopes, args[i]) = sa.scopes[1][name].paramTypes[i]

\* C6: a program that passes analysis has no call statement NAME(args); whose
\* callee is not a declared function or whose arguments differ in number or
\* type from the parameters.
C6_CallStatementsChecked ==
    Analyzed =>
        \A i \in 1 .. Len(program.decls) :
            program.decls[i].k = "FuncCallStmt"
                => CallChecked(program.decls[i].name, program.decls[i].args)

\* the condition of an if or while is bool, the bounds of a for are int
ConditionTyped(scopes, s) ==
    /\ s.k \in {"If", "While"} => analyzeExpr(scopes, s.cond) = "bool"
    /\ s.k = "For" => /\ analyzeExpr(scopes, s.start) = "int"
                      /\ analyzeExpr(scopes, s.end) = "int"

\* C7: in a program that passes analysis every if and while condition is of
\* type bool and every for bound of type int, at top level and in the body
\* of a function.
C7_ConditionsTyped ==
    Analyzed =>
        /\ \A i \in 1 .. Len(program.decls) :
              ConditionTyped(sa.scopes, program.decls[i])
        /\ \A i \in 1 .. Len(FuncDecls) :
              \A j \in 1 .. Len(FuncDecls[i].body.stmts) :
                  ConditionTyped(BodyScopes(FuncDecls[i]), FuncDecls[i].body.stmts[j])

\* C8: once the analyzer has written a diagnostic the run is in the fatal
\* state: no TAC was generated, the optimizer has not run and no output.cpp
\* was written.
C8_FatalBeforeIR ==
    sa.stderr # <<>> =>
        /\ stage = "fatal"
        /\ tac = <<>>
        /\ out = <<>>
        /\ iterations = 0
        /\ emitted = NotWritten

\* C8 witness: the run has ended on the type mismatch of `bool b = x;`, whose
\* initializer has type int.
C8_Witness ==
    /\ stage = "fatal"
    /\ sa.stderr = <<"Type mismatch in initialization">>
    /\ \E i \in 1 .. Len(program.decls) :
          /\ program.decls[i].k = "VarDecl"
          /\ program.decls[i].type = "bool"
          /\ program.decls[i].init = VarExpr(NX)

-----------------------------------------------------------------------------
(* Claims about the code generator and the runs, checked under Spec *)

\* the print statements of a statement list
Prints(body) == SelectSeq(body, LAMBDA c : c.kind = "print")

\* C4: every print instruction is translated into a write of its operand
\* with no newline appended, in the function definitions and in main.
C4_PrintWritesNoNewline ==
    stage = "written" =>
        /\ \A i \in 1 .. Len(Prints(emitted.main)) : ~Prints(emitted.main)[i].endl
        /\ \A f \in 1 .. Len(emitted.funcs) :
              \A i \in 1 .. Len(Prints(emitted.funcs[f].body)) :
                  ~Prints(emitted.funcs[f].body)[i].endl

\* C1: when the target program of the TAC before optimization and the target
\* program of the optimized TAC have both run to their end, they have
\* written the same output.
C1_OptimizedWritesSame ==
    (runs.raw.status = "done" /\ runs.opt.status = "done")
        => runs.opt.out = runs.raw.out

\* an output without its newlines: the printed values
Values(o) == SelectSeq(o, LAMBDA ch : ch # "\n")

\* C2: when the interpreter and the target program of the generated TAC have
\* both run to their end, they have written the same values (newlines left
\* aside, which main appends to every print).
C2_InterpreterWritesSame ==
    (runs.interp.status = "done" /\ runs.raw.status = "done")
        => Values(runs.interp.out) = Values(runs.raw.out)

-----------------------------------------------------------------------------
(* Claims about the IR generator, checked under Spec *)

\* the endfunc_ label that belongs to the func_ label t
EndLabelOf(t) == SEndFuncPrefix \o SubSeq(t.res, Len(SFuncPrefix) + 1, Len(t.res))

\* the positions behind i of the label endfunc_F, for the label func_F at i
EndLabelsAfter(code, i) ==
    {j \in i + 1 .. Len(code) : code[j].isLabel /\ code[j].res = EndLabelOf(code[i])}

\* C11: in the TAC generate produced, every label func_F is followed by
\* exactly one label endfunc_F, and no func_ label lies between the two.
C11_FuncLabelsPaired ==
    \A i \in 1 .. Len(tac) :
        IsFuncLabel(tac[i]) =>
            /\ Cardinality(EndLabelsAfter(tac, i)) = 1
            /\ \A j \in EndLabelsAfter(tac, i) :
                   \A k \in i + 1 .. j - 1 : ~IsFuncLabel(tac[k])

\* C11 witness: generate has produced TAC with the labels of two functions,
\* the second function's label behind the first one's endfunc_ label.
C11_Witness ==
    /\ stage = "irgen"
    /\ \E i, j \in 1 .. Len(tac) :
          /\ i < j
          /\ IsFuncLabel(tac[i]) /\ IsFuncLabel(tac[j])
          /\ EndLabelsAfter(tac, i) # {}
          /\ \A e \in EndLabelsAfter(tac, i) : e < j

-----------------------------------------------------------------------------
(* Claims about the passes of the optimizer, checked under SpecOpt *)

\* deadCodeElim has just returned `out`
AfterDce == stage = "opt_loop" /\ iterations >= 1

\* instruction i of code is a pure instruction that defines a temp
PureTempDef(code, i) ==
    ~code[i].isLabel /\ code[i].op \in PureOps /\ isTemp(code[i].res)

\* the result of instruction i is an argument of a later non-label instruction
UsedLater(code, i) ==
    \E j \in i + 1 .. Len(code) :
        ~code[j].isLabel /\ (code[j].arg1 = code[i].res \/ code[j].arg2 = code[i].res)

\* C12: in the list deadCodeElim returns, every pure instruction that defines
\* a temp has that temp as arg1 or arg2 of a later non-label instruction.
C12_SurvivorsUsedLater ==
    AfterDce => \A i \in 1 .. Len(out) : PureTempDef(out, i) => UsedLater(out, i)

\* the value of an expression of integer literals and + - *
RECURSIVE Eval(_)
Eval(e) ==
    CASE e.k = "Number" -> stoll(e.value)
      [] e.k = "Binary" /\ e.op = "+" -> Eval(e.left) + Eval(e.right)
      [] e.k = "Binary" /\ e.op = "-" -> Eval(e.left) - Eval(e.right)
      [] e.k = "Binary" /\ e.op = "*" -> Eval(e.left) * Eval(e.right)

\* C13: for `int x = E;` with E built from integer literals and + - *,
\* optimize returns the single instruction `x = <value of E>`.
C13_LiteralInitFolded ==
    (stage = "opt_done" /\ round = 1 /\ program \in LiteralPrograms)
        => out = <<Instr("assign", to_string(Eval(program.decls[1].init)), <<>>, NX)>>

\* C14: a call of constantFold leaves every `r = a / 0` and `r = a % 0` with
\* integer-literal operands as it is: op, arg1, arg2 and result.
C14_DivByZeroNotFolded ==
    [][stage = "opt_cf" =>
          /\ Len(out') = Len(out)
          /\ \A i \in 1 .. Len(out) : DivByZero(out[i]) => out'[i] = out[i]]_vars

\* C14 witness: constantFold has returned a list that holds a division by
\* the literal 0 next to an instruction it folded.
C14_Witness ==
    /\ stage = "opt_sr"
    /\ changed
    /\ \E i \in 1 .. Len(out) : DivByZero(out[i])
    /\ \E i \in 1 .. Len(out) : out[i] # OptInput[i]

-----------------------------------------------------------------------------
(* Claims about the lexer, checked under SpecLex *)

\* a `//` at position i (0-based) that is the first one of the source and has
\* no quote and no star before it: it stands outside every string literal and
\* block comment
LineCommentAt(src, i) ==
    /\ CharAt(src, i) = "/" /\ CharAt(src, i + 1) = "/"
    /\ \A k \in 0 .. i - 1 :
          /\ CharAt(src, k) \notin {"\"", "*"}
          /\ ~(CharAt(src, k) = "/" /\ CharAt(src, k + 1) = "/")

\* the position of the first newline at or behind i, or the length of src
EndOfLine(src, i) ==
    LET nl == {j \in i .. Len(src) - 1 : CharAt(src, j) = "\n"}
    IN IF nl = {} THEN Len(src) ELSE CHOOSE j \in nl : \A k \in nl : j <= k

\* some token of lx began at position i
TokenAt(lx, i) == \E k \in 1 .. Len(lx.tokens) : lx.starts[k] = i

\* C15: no token begins between a `//` and the end of its line, whatever
\* follows the second slash, and a word that opens the next line is a token.
C15_LineCommentSkipped ==
    stage = "lexed" =>
        \A i \in 0 .. Len(lexer.source) - 2 :
            LineCommentAt(lexer.source, i) =>
                /\ \A j \in i .. EndOfLine(lexer.source, i) - 1 : ~TokenAt(lexer, j)
                /\ isalpha(CharAt(lexer.source, EndOfLine(lexer.source, i) + 1))
                      => TokenAt(lexer, EndOfLine(lexer.source, i) + 1)

\* the 1-based line of position i of src
LineOf(src, i) == 1 + Cardinality({j \in 1 .. i : src[j] = "\n"})

\* C16: every token tokenize produced carries the line on which its lexeme
\* began.
C16_TokenLines ==
    stage = "lexed" =>
        \A k \in 1 .. Len(lexer.tokens) :
            lexer.tokens[k].line = LineOf(lexer.source, lexer.starts[k])

-----------------------------------------------------------------------------
(* Claims about the parser, checked under SpecParse *)

\* the precedence level of a binary operator, lowest first
Level(o) ==
    CASE o = "||" -> 1
      [] o = "&&" -> 2
      [] o \in {"==", "!="} -> 3
      [] o \in {"<", ">", "<=", ">="} -> 4
      [] o \in {"+", "-"} -> 5
      [] o \in {"*", "/", "%"} -> 6

\* the lexemes of an expression tree, read from left to right, each as a
\* sequence (an operator is a sequence of one string)
RECURSIVE InOrder(_)
InOrder(e) ==
    CASE e.k = "Binary" -> InOrder(e.left) \o <<<<e.op>>>> \o InOrder(e.right)
      [] e.k = "Unary" -> <<<<e.op>>>> \o InOrder(e.expr)
      [] e.k = "Var" -> <<e.name>>
      [] e.k \in {"Number", "Bool", "String"} -> <<e.value>>
      [] OTHER -> <<>>

\* the tree of an expression without parentheses under the stated precedence
\* with left-associative operators: a right operand binds tighter than its
\* operator, a left operand at least as tight, a unary operand tighter than
\* every binary operator
RECURSIVE Shaped(_)
Shaped(e) ==
    CASE e.k = "Binary" ->
           /\ Shaped(e.left) /\ Shaped(e.right)
           /\ e.left.k = "Binary" => Level(e.left.op) >= Level(e.op)
           /\ e.right.k = "Binary" => Level(e.right.op) > Level(e.op)
      [] e.k = "Unary" -> Shaped(e.expr) /\ e.expr.k # "Binary"
      [] OTHER -> TRUE

\* the lexemes of the tokens before END_OF_FILE
Lexemes(ts) ==
    [i \in 1 .. Len(ts) - 1 |->
        IF ts[i].type = "ID" THEN ts[i].lexeme ELSE <<ts[i].lexeme>>]

\* expr has returned and has read every token
ParsedAll == stage = "parsed_expr" /\ Parser_isAtEnd(parser)

\* C17: binary expressions are built with the precedence || , && , == != ,
\* < > <= >= , + - , * / % , unary (lowest first) and every binary operator is
\* left-associative: a - b - c is (a - b) - c, a + b * c is a + (b * c).
C17_PrecedenceLeftAssoc ==
    ParsedAll =>
        /\ InOrder(parser.expr) = Lexemes(parser.tokens)
        /\ Shaped(parser.expr)
        /\ Lexemes(parser.tokens) = <<NA, <<"-">>, NB, <<"-">>, NC>>
             => parser.expr = BinaryExpr("-", BinaryExpr("-", VarExpr(NA), VarExpr(NB)),
                                         VarExpr(NC))
        /\ Lexemes(parser.tokens) = <<NA, <<"+">>, NB, <<"*">>, NC>>
             => parser.expr = BinaryExpr("+", VarExpr(NA),
                                         BinaryExpr("*", VarExpr(NB), VarExpr(NC)))

\* C17 witness: expr has read all of `a - b - c` and returned a tree.
C17_Witness ==
    /\ ParsedAll
    /\ Lexemes(parser.tokens) = <<NA, <<"-">>, NB, <<"-">>, NC>>
    /\ parser.expr.k = "Binary"

-----------------------------------------------------------------------------
(* Termination of optimize, checked under FairSpecOpt *)

\* the sizes of `code` at the start of each round of the removal loop of
\* deadCodeElim, lines 190-238
RECURSIVE DceRoundSizes(_, _)
DceRoundSizes(code, used) ==
    LET next(r) == IF r.anyRemoved THEN DceRoundSizes(r.code, r.used) ELSE <<>>
    IN <<Len(code)>> \o next(DceRound(code, 1, used, <<>>, FALSE))

StrictlyDecreasing(ns) == \A i \in 1 .. Len(ns) - 1 : ns[i + 1] < ns[i]

\* C18: optimize terminates on every TAC list: the outer loop runs the four
\* passes at most 10 times, every round of the removal loop of deadCodeElim
\* that is followed by another one deleted an instruction, and every call
\* that is at its loop test reaches its return.
C18_OptimizeTerminates ==
    /\ [](iterations <= 10)
    /\ [](stage = "opt_dce" => StrictlyDecreasing(DceRoundSizes(out, UsedTemps(out))))
    /\ (stage = "opt_loop" ~> stage = "opt_done")

\* C18 witness: a call of optimize returned because the cap was reached, the
\* tenth run of the passes still reporting a change.
C18_Witness == stage = "opt_done" /\ iterations = 10 /\ changed

-----------------------------------------------------------------------------
(* Claims about the statements the IR generator lowers, checked under Spec *)

\* the number of statements of kind kd in node n and the nodes below it
RECURSIVE CountStmts(_, _)
CountSeq(ns, kd) ==
    LET RECURSIVE sum(_)
        sum(i) == IF i > Len(ns) THEN 0 ELSE CountStmts(ns[i], kd) + sum(i + 1)
    IN sum(1)
CountStmts(n, kd) ==
    (IF n.k = kd THEN 1 ELSE 0)
    + CASE n.k = "Block" -> CountSeq(n.stmts, kd)
        [] n.k = "FuncDecl" -> CountStmts(n.body, kd)
        [] n.k \in {"For", "While"} -> CountStmts(n.block, kd)
        [] n.k = "If" -> CountStmts(n.then_block, kd) + CountStmts(n.else_block, kd)
        [] OTHER -> 0

\* the instructions of code with operation o
InstrsOf(code, o) == {i \in 1 .. Len(code) : ~code[i].isLabel /\ code[i].op = o}

\* C19: the IR generator drops no statement: the TAC holds one `input`
\* instruction for every input statement of the program and one `call`
\* instruction with an empty result for every call statement, wherever the
\* statement stands.
C19_NoStatementDropped ==
    stage = "irgen" =>
        /\ Cardinality(InstrsOf(tac, "input")) = CountSeq(program.decls, "Input")
        /\ Cardinality({i \in InstrsOf(tac, "call") : tac[i].res = <<>>})
             = CountSeq(program.decls, "FuncCallStmt")

-----------------------------------------------------------------------------
(* Claims about the arguments of calls, checked under Spec *)

\* code holds an instruction that writes a
DefinedIn(code, a) == \E i \in 1 .. Len(code) : ~code[i].isLabel /\ code[i].res = a

\* the temps call instruction t passes, arg2 being `a1, a2, ..`
TempArgs(t) ==
    LET pick(as) == {as[k] : k \in {j \in 1 .. Len(as) : isTemp(as[j])}}
    IN pick(SplitArgs(t.arg2))

\* C20: dead-code elimination never removes the instruction that defines a
\* temp which a surviving call passes as an argument, however many arguments
\* the call has: a temp that the list handed to optimize defined and that a
\* call of the result passes is still defined in the result.
C20_CallArgsStayDefined ==
    stage = "opt_done" =>
        \A i \in InstrsOf(out, "call") :
            \A a \in TempArgs(out[i]) : DefinedIn(OptInput, a) => DefinedIn(out, a)

-----------------------------------------------------------------------------
(* Claims about the scopes of the interpreter, checked under SpecInterp *)

\* the same number of scopes, each with the same names
SameScopes(e1, e2) ==
    /\ Len(e1) = Len(e2)
    /\ \A i \in 1 .. Len(e1) : DOMAIN e1[i] = DOMAIN e2[i]

\* evalExpr returned from a call of a declared function without an exception
Returned == stage' = "called" /\ interp'.status = "run"

\* C21: when callFunction has returned, by falling off the end of the body or
\* by a return at any nesting depth, the scope stack has the depth and the
\* names in each scope that it had before the call.
C21_ScopesRestored == [][Returned => SameScopes(interp.env, interp'.env)]_vars

\* the interpreter with the global scope alone on its scope stack
GlobalsOnly(st) == [st EXCEPT !.env = <<st.env[1]>>]

\* the call is made from a block at top level: the scope stack holds the
\* globals and the locals of the caller's block
FromCallerBlock == stage = "in_block" /\ Len(interp.env) = 2

\* C26: a variable reference in a function body resolves to the function's own
\* parameters and locals or to a global, never to a local of the caller: a
\* call made from a block of the caller returns the value, and leaves the
\* globals, that the same call returns and leaves without the caller's locals.
C26_NoCallerLocals ==
    [][(Returned /\ FromCallerBlock) =>
          LET same(r) == lastCall'.v = r.v /\ interp'.env[1] = r.st.env[1]
          IN same(evalExpr(GlobalsOnly(interp), lastCall'.e))]_vars

-----------------------------------------------------------------------------
(* Claims about the declarations CodeGenerator writes, checked under Spec *)

\* the [name, type] of the variables a statement declares, at any depth; a for
\* loop introduces its variable as an int
RECURSIVE SourceDecls(_)
SourceDecls(s) ==
    CASE s.k = "VarDecl" -> {[name |-> s.name, type |-> s.type]}
      [] s.k = "Block" -> UNION {SourceDecls(s.stmts[i]) : i \in 1 .. Len(s.stmts)}
      [] s.k = "If" -> SourceDecls(s.then_block) \cup SourceDecls(s.else_block)
      [] s.k = "While" -> SourceDecls(s.block)
      [] s.k = "For" -> {[name |-> s.var, type |-> "int"]} \cup SourceDecls(s.block)
      [] OTHER -> {}

\* the declarations of the locals of the functions named n
LocalsOf(n) ==
    UNION {SourceDecls(program.decls[i].body) :
              i \in {k \in 1 .. Len(program.decls) :
                        program.decls[k].k = "FuncDecl" /\ program.decls[k].name = n}}

\* the declarations inside the nested statements of the top level
NestedTopLocals ==
    UNION {SourceDecls(program.decls[i]) :
              i \in {k \in 1 .. Len(program.decls) :
                        program.decls[k].k \notin {"FuncDecl", "VarDecl"}}}

\* every declaration of ds carries a type the source declares for its name
TypedAsDeclared(ds, src) ==
    \A i \in 1 .. Len(ds) :
        LET types == {d.type : d \in {x \in src : x.name = ds[i].name}}
        IN types # {} => ds[i].type \in {cppTypeFor(ty) : ty \in types}

\* C22: the declaration written at the first assignment to a local of a
\* function, or of a nested block of the top level, has the type the source
\* declares for the variable
C22_DeclaredTypeKept ==
    stage = "written" =>
        /\ \A i \in 1 .. Len(emitted.funcs) :
              TypedAsDeclared(emitted.funcs[i].decls, LocalsOf(emitted.funcs[i].name))
        /\ TypedAsDeclared(emitted.mainDecls, NestedTopLocals)

\* the letter t followed by one or more decimal digits and nothing else
TDigits(a) == Len(a) >= 2 /\ a[1] = "t" /\ \A k \in 2 .. Len(a) : isdigit(a[k])

\* the operand strings of the instructions of a list
Operands(code) == UNION {{code[i].res, code[i].arg1, code[i].arg2} : i \in 1 .. Len(code)}

\* C23: among the operands the optimizer and the code generator are handed,
\* isTemp holds of exactly the strings made of t and one or more digits
C23_TempsAreTDigits ==
    \A a \in Operands(tac) \cup Operands(out) : isTemp(a) <=> TDigits(a)

-----------------------------------------------------------------------------
(* Claims about the analyzer and the IR generator, checked under Spec *)

\* C24: a for loop over a variable that was not declared, whose body reads the
\* variable, is accepted at the top level and inside a function body
C24_LoopVariableIntroduced ==
    (program \in {ForTopProgram, ForFuncProgram} /\ stage # "parsed") => ~sa.exited

\* the generator after the functions and the first k - 1 top-level nodes
BeforeNode(k) ==
    genTop(genFuncs(NewIRGenerator, program.decls, 1), SubSeq(program.decls, 1, k - 1), 1)

\* the condition's code, ifFalse c goto L_end, the then-block's code, label
\* L_end, appended to the code of g
IfShape(g, s) ==
    LET Lend == LabelName(g.labelCount + 2)
        then(c) == genBlock(emit(c.g, Instr("ifFalse", c.v, <<>>, Lend)), s.then_block)
    IN emit(then(genExpr([g EXCEPT !.labelCount = g.labelCount + 2], s.cond)),
            Label(Lend)).code

\* C25: the code of a top-level if without else is the condition's code, the
\* ifFalse, the then-block's code and the label, and nothing else
C25_IfWithoutElse ==
    stage = "irgen" =>
        \A k \in 1 .. Len(program.decls) :
            (program.decls[k].k = "If" /\ program.decls[k].else_block.k = "null") =>
                LET starts(want) == /\ Len(tac) >= Len(want)
                                    /\ SubSeq(tac, 1, Len(want)) = want
                IN starts(IfShape(BeforeNode(k), program.decls[k]))

-----------------------------------------------------------------------------
(* Claims about the function ranges and the temps of CodeGenerator,          *)
(* checked under Spec                                                        *)

\* no instruction lies in the ranges of two functions
RangesDisjoint(ranges) ==
    \A n, m \in DOMAIN ranges :
        n # m => ranges[n].end <= ranges[m].start \/ ranges[m].end <= ranges[n].start

\* the target labels among the statements of a body
TargetLabels(body) == {body[i].dst : i \in {k \in 1 .. Len(body) : body[k].kind = "label"}}

\* C27: the function ranges share no instruction, and no func_ label is written
\* as a target label, neither in a function body nor in main
C27_RangesPartition ==
    stage = "written" =>
        /\ RangesDisjoint(funcRanges(out))
        /\ \A i \in 1 .. Len(emitted.funcs) :
              \A l \in TargetLabels(emitted.funcs[i].body) : ~StartsWith(l, SFuncPrefix)
        /\ \A l \in TargetLabels(emitted.main) : ~StartsWith(l, SFuncPrefix)

\* the type written for the temp that instruction k of out defines: among the
\* temps of the function whose range holds k, or among those of main
DeclaredTempType(k) ==
    LET ranges == funcRanges(out)
        holds == {n \in DOMAIN ranges : k >= ranges[n].start /\ k < ranges[n].end}
        of(fs) == IF fs = {} THEN emitted.mainTemps[out[k].res]
                  ELSE emitted.funcs[CHOOSE i \in fs : TRUE].temps[out[k].res]
    IN of({i \in 1 .. Len(emitted.funcs) : emitted.funcs[i].name \in holds})

\* the type of the value an instruction produces, "any" where the operation
\* alone does not tell
ProducedType(t) ==
    IF t.op \in {"<", ">", "<=", ">=", "==", "!=", "&&", "||", "!"} THEN "bool"
    ELSE IF t.op \in {"-", "*", "/", "%"} THEN "int"
    ELSE "any"

\* C29: a temp defined by a comparison, an equality or a logical operation is
\* declared bool, a temp defined by an arithmetic operation is declared int
C29_TempTypeIsValueType ==
    stage = "written" =>
        \A k \in 1 .. Len(out) :
            (~out[k].isLabel /\ isTemp(out[k].res) /\ ProducedType(out[k]) # "any") =>
                DeclaredTempType(k) = ProducedType(out[k])


-----------------------------------------------------------------------------
(* Claims about strength reduction and constant folding, checked under       *)
(* SpecOpt                                                                   *)

MaxX == 3

\* r = x * 2 or r = 2 * x
TimesTwo(t) == ~t.isLabel /\ t.op = "*" /\ (t.arg1 = STwo \/ t.arg2 = STwo)

\* r = x + x for the x of a TimesTwo instruction
Doubled(t) ==
    LET same(x) == Instr("+", x, x, t.res)
    IN same(IF t.arg2 = STwo THEN t.arg1 ELSE t.arg2)

\* what instruction t computes when its variables hold the integer x
ValueAt(t, x) ==
    LET env == [a \in {t.arg1, t.arg2} |-> IntVal(x)]
    IN binary(t.op, operand(env, t.arg1), operand(env, t.arg2))

\* C28: strengthReduce turns r = x * 2 and r = 2 * x into r = x + x, which
\* computes the same integer for every x, and leaves every other instruction
\* as it was
C28_StrengthReduceDoubles ==
    [][stage = "opt_sr" =>
          /\ Len(out') = Len(out)
          /\ \A i \in 1 .. Len(out) :
                IF TimesTwo(out[i])
                THEN /\ out'[i] = Doubled(out[i])
                     /\ \A x \in -MaxX .. MaxX : ValueAt(out'[i], x) = ValueAt(out[i], x)
                ELSE out'[i] = out[i]]_vars

\* strengthReduce has rewritten a multiplication by 2 of the first iteration
C28_Witness ==
    /\ stage = "opt_cp" /\ round = 1 /\ iterations = 1
    /\ \E i \in 1 .. Len(out) :
          LET was(t) == TimesTwo(t) /\ ~isIntLiteral(t.arg1) /\ out[i] = Doubled(t)
          IN was(constantFold(tac).code[i])

\* C30: an arithmetic instruction on two integer literals folds to an integer
\* literal, a comparison or equality on two integer literals to true or false
C30_FoldKeepsKind ==
    [][stage = "opt_cf" =>
          \A i \in 1 .. Len(out) :
              (/\ ~out[i].isLabel
               /\ isIntLiteral(out[i].arg1) /\ isIntLiteral(out[i].arg2)
               /\ out'[i] # out[i]) =>
                  IF out[i].op \in {"+", "-", "*", "/", "%"}
                  THEN isIntLiteral(out'[i].arg1)
                  ELSE isBoolLiteral(out'[i].arg1)]_vars

====
